---------------------------- MODULE Spec2Model ----------------------------
(***************************************************************************)
(* VideoToVTT: the orchestration layer of the subtitle pipeline.           *)
(*                                                                         *)
(*   Spec / FairSpec      the bounded worker pool, processVideosConcurrently*)
(*                        (src/unnamed/part_003 379-491; the same pool is   *)
(*                        in src/fast-processor.js 300-366)                 *)
(*   RetrySpec /          the retry/backoff controller, retryWithBackoff,   *)
(*   FairRetrySpec        in both of its variants (src/unnamed/part_003     *)
(*                        943-992 and src/fast-processor.js 707-756)        *)
(*   ItemSpec /           one call of processVideoFast                      *)
(*   FairItemSpec                                                           *)
(*                        (src/unnamed/part_003 494-590)                    *)
(*   FastItemSpec         the same call in src/fast-processor.js 369-453    *)
(*   RunSpec              run(): filterVideosToProcess, then the call       *)
(*                        (src/unnamed/part_003 271-317, 1102-1133)         *)
(*   TranslateSpec        one call of translateVTTFast with its batches     *)
(*                        (src/unnamed/part_003 320-376, 826-914)           *)
(*   PublishSpec          one attempt from the translations to the gate,    *)
(*                        with the caption uploads (src/unnamed/part_003    *)
(*                        530-574, 737-823, 995-1100; src/fast-processor.js *)
(*                        405-453, 602-678, 759-798)                        *)
(*   PairSpec             the file paths of two Items in the pool           *)
(*                        (src/unnamed/part_003 935-940)                    *)
(*   ResumeSpec           the download stage over several runs              *)
(*                        (src/individual-translation-processor.js 147-214, *)
(*                        src/unnamed/part_003 605-637)                     *)
(*   TranscriptSpec       the transcription stage of a batch               *)
(*                        (src/individual-translation-processor.js 246-325,*)
(*                        src/unnamed/part_003 659-695)                    *)
(*   ModelSpec            start-up of the translator and the model its     *)
(*                        requests name (src/unnamed/part_003 39-46, 173-200;*)
(*                        src/unnamed/part_009 326-441, 625-664)           *)
(*   CatalogSpec          processVideoFast and the captions the catalog holds*)
(*                        (src/fast-processor.js 369-468, 563-600, 759-798;*)
(*                        src/unnamed/part_003 494-590, 698-735)           *)
(*   CaptionSpec          processVideo and its caption management          *)
(*                        (src/index.js 267-500)                           *)
(*   LineSpec             translateVTTIndividually with retryTranslation   *)
(*                        (src/individual-translation-processor.js 328-420,*)
(*                        481-499; src/unnamed/part_009 506-538)           *)
(*                                                                         *)
(* JavaScript runs one continuation at a time: every action below is the    *)
(* code that runs between two suspension points (await).                    *)
(***************************************************************************)
EXTENDS Integers, Sequences, FiniteSets, TLC

(* ----------------------------- bounds ---------------------------------- *)
MaxVideos == 4

MaxK == 3

Null == -1

Min(a, b) == IF a < b THEN a ELSE b

Max(a, b) == IF a > b THEN a ELSE b

VARIABLES
  (* worker pool *)
  videoCount,            \* videos.length
  maxConcurrentVideos,   \* this.maxConcurrentVideos
  poolPc,                \* "start", "awaiting" (at await Promise.all), "returned"
  started,               \* let started
  completed,             \* let completed
  results,               \* const results: sequence of video indices
  errors,                \* const errors: sequence of [video, error]
  semaphore,             \* lane -> promise held in the slot (Null or the video index its processNext call took)
  videoState,            \* video index -> "queued", "running", "done"
  promiseState,          \* promise of the processNext call that took video v: "none", "pending", "fulfilled"
  awaited,               \* the promises handed to Promise.all
  returnedCount          \* results.length + errors.length when the aggregate was returned (Null before)

poolVars == <<videoCount, maxConcurrentVideos, poolPc, started, completed, results,
              errors, semaphore, videoState, promiseState, awaited, returnedCount>>

VARIABLES
  (* retry/backoff controller *)
  rImpl,                 \* which file's retryWithBackoff runs: "part_003" or "fast-processor"
  rPc,                   \* position of the caller / of retryWithBackoff
  operationName,         \* parameter operationName
  maxRetries,            \* parameter maxRetries
  attempt,               \* let attempt
  lastError,             \* the error caught by the current attempt
  thrown,                \* the error retryWithBackoff threw
  accessToken,           \* this.accessToken
  tokenExpiry,           \* this.tokenExpiry (ms)
  now,                   \* Date.now() (ms)
  invocations,           \* number of calls of operation()
  onlyRateLimited,       \* every attempt so far ended with a rate-limit error of the operation
  waitTime,              \* the last backoff wait applied (ms)
  waitAttempt,           \* the attempt after which it was applied
  authErrors             \* number of attempts the operation answered with 401

retryVars == <<rImpl, rPc, operationName, maxRetries, attempt, lastError, thrown, accessToken,
               tokenExpiry, now, invocations, onlyRateLimited, waitTime, waitAttempt, authErrors>>

VARIABLES
  (* one call of processVideoFast *)
  pPc,                   \* position in processVideoFast
  pAttempt,              \* let attempt
  skipExisting,          \* this.skipExisting
  artifacts,             \* language -> the file <filename>_<lang>.vtt in outputDir
  isComplete,            \* the last result of verifyVideoProcessing
  verifiedAttempt,       \* the attempt that verification ran in (0: none yet)
  originalLangCode,      \* const originalLangCode of the current attempt
  pError,                \* error.message of the last failed attempt
  pWait,                 \* the last wait between attempts (ms)
  pImpl,                 \* which file's processVideoFast runs: "part_003" or "fast-processor"
  artifactsAtStart,      \* the output directory as the run found it
  stageCalls,            \* number of stage invocations (network or subprocess) for the Item
  failedTranslations,    \* the languages whose translation threw in the current attempt
  padded,                \* the languages whose file was written with '[LANG] source' lines
  reported,              \* what processNext pushed for the Item: to results or to errors
  tempFiles              \* the Item's files in tempDir: "video", "audio", "transcript"

itemObservers == <<pImpl, artifactsAtStart, stageCalls, failedTranslations, padded, reported>>

itemVars == <<pPc, pAttempt, skipExisting, artifacts, isComplete, verifiedAttempt,
              originalLangCode, pError, pWait, itemObservers, tempFiles>>

VARIABLES
  (* one call of translateVTTFast and the write of its result *)
  tPc,                   \* position in translateVTTFast / in its caller
  vttLines,              \* vttContent.split('\n')
  targetLanguage,        \* parameter targetLanguage
  batchSize,             \* this.batchSize
  translatedLines,       \* const translatedLines
  subtitleTexts,         \* const subtitleTexts
  batchIndex,            \* the i of the batch loop
  translations,          \* const translations
  tAttempt,              \* attempt of the retryWithBackoff call of the current batch
  translatedVTT,         \* the lines of the document translateVTTFast returned
  tError,                \* error.message of the error translateVTTFast threw
  written,               \* the lines written to <filename>_<targetLang>.vtt in this attempt
  batches,               \* the batches handed to batchTranslateSubtitles, in order
  requests,              \* number of requests sent to the service for the current batch
  retried,               \* some request of this call repeated a rate-limited one
  offered                \* number of non-empty lines in the last response

stageVars == <<tPc, vttLines, targetLanguage, batchSize, translatedLines, subtitleTexts,
               batchIndex, translations, tAttempt, translatedVTT, tError, written,
               batches, requests, retried, offered>>

VARIABLES
  (* one attempt of processVideoFast from the translations to the gate *)
  uImpl,                 \* which file's processVideoFast runs
  uPc,                   \* position of the attempt
  uploadCaptions,        \* process.env.UPLOAD_CAPTIONS?.toLowerCase() === 'true'
  maxConcurrentTranslations, \* this.maxConcurrentTranslations
  uOriginal,             \* const originalLangCode
  lane,                  \* language -> position of its translation and upload
  translationResults,    \* language -> success of the entry of translationResults
  outputFiles,           \* language -> the file <filename>_<lang>.vtt in outputDir
  uploaded,              \* the languages whose caption a POST of this attempt published
  uploadReturn,          \* language -> what uploadCaptionToApiVideo returned
  conflicted,            \* the languages whose first POST was answered 'Caption already exists'
  remoteAnswer           \* what the listing of the remote captions showed

publishVars == <<uImpl, uPc, uploadCaptions, maxConcurrentTranslations, uOriginal, lane,
                 translationResults, outputFiles, uploaded, uploadReturn, conflicted,
                 remoteAnswer>>

VARIABLES
  (* two Items of one catalog in the pool *)
  pairTitles,            \* item -> video.title, a sequence of characters
  pairK,                 \* this.maxConcurrentVideos
  qPc,                   \* item -> position of its processVideoFast call
  qAttempt               \* item -> let attempt

pairVars == <<pairTitles, pairK, qPc, qAttempt>>

VARIABLES
  (* the download of the videos over several runs of the program *)
  dImpl,                 \* which download runs: "individual" (downloadAllVideos) or "part_003"
  dRun,                  \* the number of the run of the program
  dPc,                   \* video -> position of its download in this run
  videoFile,             \* video -> the file <filename>.mp4 in tempDir
  dResult,               \* video -> what the download stage reported in this run
  takenAsCopy,           \* video -> the file that a run took for an earlier download
  redownloaded           \* the videos requested again while their complete file was there

resumeVars == <<dImpl, dRun, dPc, videoFile, dResult, takenAsCopy, redownloaded>>

VARIABLES
  (* the transcription stage *)
  wImpl,                 \* which transcription runs: "individual" (processBatchWithWhisper) or "part_003"
  wPc,                   \* item -> position of its transcription
  vttOnDisk,             \* item -> the file at vttPath: "absent", "webvtt" or "other"
  handedOn,              \* item -> the content handed to translation ("none" before)
  wasOnDisk              \* item -> the content handed on was on disk when the stage started

transcriptVars == <<wImpl, wPc, vttOnDisk, handedOn, wasOnDisk>>

VARIABLES
  (* start-up of the translator and the model its requests name *)
  mPc,                   \* position of the start-up: constructor, initialize, testConnection, run
  apiKey,                \* this.apiKey is set
  forcedModel,           \* process.env.FORCE_PAID_MODEL
  llmModel,              \* this.model (config.model || process.env.LLM_MODEL || null)
  selectedModel,         \* this.selectedModel
  modelsList,            \* this.modelsList: sequence of model ids
  requestModel,          \* the model named by the last translation request after start-up
  requestCount           \* translation requests issued after start-up

modelVars == <<mPc, apiKey, forcedModel, llmModel, selectedModel, modelsList, requestModel,
               requestCount>>

VARIABLES
  (* one Item and the captions the catalog holds for its video *)
  cImpl,                 \* which file's processVideoFast runs: "part_003" or "fast-processor"
  cUpload,               \* process.env.UPLOAD_CAPTIONS is 'true'
  cSkipExisting,         \* this.skipExisting
  cPc,                   \* position of the processVideoFast call
  cAttempt,              \* let attempt
  cOriginal,             \* originalLangCode
  localVtts,             \* the languages whose VTT file is in outputDir
  published,             \* the languages the catalog holds a caption for
  publishedAtStart,      \* the same when the call started
  pendingTargets,        \* the target languages this attempt has not settled yet
  deleteSent,            \* a DELETE of a caption was sent
  uploadedLangs,         \* the languages whose caption a POST of this call created
  allSucceeded,          \* no stage, translation or catalog call of the call has failed
  stagesRun              \* an attempt ran its stages up to the transcript

catalogVars == <<cImpl, cUpload, cSkipExisting, cPc, cAttempt, cOriginal, localVtts, published,
                 publishedAtStart, pendingTargets, deleteSent, uploadedLangs, allSucceeded,
                 stagesRun>>

VARIABLES
  (* processVideo of src/index.js and the captions of its video *)
  kPc,                   \* position of the processVideo call
  kUpload,               \* process.env.UPLOAD_CAPTIONS is 'true'
  kReplace,              \* process.env.REPLACE_EXISTING_CAPTIONS is 'true'
  kRemote,               \* the languages the catalog lists a caption for
  kLingering,            \* deleted captions the catalog still lists
  existingCaptions,      \* const existingCaptions of processVideo
  kElapsed,              \* Date.now() - startTime in waitForCaptionDeletion (ms)
  waitResult,            \* what waitForCaptionDeletion returned ("none" before)
  confirmedEmpty,        \* a listing of waitForCaptionDeletion succeeded and showed no caption
  listingsAfterTimeout,  \* a listing was requested when maxWaitTime had passed
  kLang,                 \* the language being translated or uploaded
  kLocal,                \* the languages whose VTT file was written
  uploadRequests         \* the languages a POST of a caption was sent for

captionVars == <<kPc, kUpload, kReplace, kRemote, kLingering, existingCaptions, kElapsed,
                 waitResult, confirmedEmpty, listingsAfterTimeout, kLang, kLocal,
                 uploadRequests>>

VARIABLES
  (* translateIndividually: the subtitle lines of one video, language by language *)
  lPc,                   \* position: "language" (top of the for loop), "calling", "finished"
  lineCount,             \* the number of subtitle text lines of the transcript
  lLang,                 \* index of the current language in IndividualLanguages
  lLine,                 \* let subtitleCount
  lAttempt,              \* let attempt of retryTranslation
  serviceCalls,          \* invocations of the operation for the current line
  retryWaits,            \* the waits retryTranslation applied for the current line (ms)
  langResults           \* language -> what videoResults.translations holds for it

lineVars == <<lPc, lineCount, lLang, lLine, lAttempt, serviceCalls, retryWaits,
              langResults>>

vars == <<poolVars, retryVars, itemVars, stageVars, publishVars, pairVars, resumeVars,
  transcriptVars,
  modelVars,
  catalogVars,
  captionVars,
  lineVars>>

nonPoolVars == <<retryVars, itemVars, stageVars, publishVars, pairVars, resumeVars,
  transcriptVars,
  modelVars,
  catalogVars,
  captionVars,
  lineVars>>

nonRetryVars == <<poolVars, itemVars, stageVars, publishVars, pairVars, resumeVars,
  transcriptVars,
  modelVars,
  catalogVars,
  captionVars,
  lineVars>>

nonItemVars == <<poolVars, retryVars, stageVars, publishVars, pairVars, resumeVars,
  transcriptVars,
  modelVars,
  catalogVars,
  captionVars,
  lineVars>>

nonStageVars == <<poolVars, retryVars, itemVars, publishVars, pairVars, resumeVars,
  transcriptVars,
  modelVars,
  catalogVars,
  captionVars,
  lineVars>>

nonPublishVars == <<poolVars, retryVars, itemVars, stageVars, pairVars, resumeVars,
  transcriptVars,
  modelVars,
  catalogVars,
  captionVars,
  lineVars>>

nonPairVars == <<poolVars, retryVars, itemVars, stageVars, publishVars, resumeVars,
  transcriptVars,
  modelVars,
  catalogVars,
  captionVars,
  lineVars>>

nonResumeVars == <<poolVars, retryVars, itemVars, stageVars, publishVars, pairVars,
  transcriptVars,
  modelVars,
  catalogVars,
  captionVars,
  lineVars>>

nonTranscriptVars == <<poolVars, retryVars, itemVars, stageVars, publishVars, pairVars, resumeVars,
  modelVars,
  catalogVars,
  captionVars,
  lineVars>>

nonModelVars == <<poolVars, retryVars, itemVars, stageVars, publishVars, pairVars, resumeVars, transcriptVars,
  catalogVars,
  captionVars,
  lineVars>>

nonCatalogVars == <<poolVars, retryVars, itemVars, stageVars, publishVars, pairVars, resumeVars, transcriptVars, modelVars,
  captionVars,
  lineVars>>

nonCaptionVars == <<poolVars, retryVars, itemVars, stageVars, publishVars, pairVars, resumeVars, transcriptVars, modelVars, catalogVars,
  lineVars>>

nonLineVars == <<poolVars, retryVars, itemVars, stageVars, publishVars, pairVars, resumeVars, transcriptVars, modelVars, catalogVars, captionVars>>

(* ---------------------- retry/backoff controller ----------------------- *)
MaxRetriesBound == 6

MaxNow == 6000000

\* the counters that only observe a call stop counting here
CountCap == MaxRetriesBound + 2

Bump(n) == IF n < CountCap THEN n + 1 ELSE n

Impls == {"part_003", "fast-processor"}

\* the labels the callers pass: caption delete (part_003 711), caption upload
\* (767), caption listing (1082), batch translation (340)
OperationNames == {"Delete AR caption", "Upload AR caption",
                   "Caption verification for clip", "Batch translation to AR"}

\* operationName.includes('caption')
IncludesLowerCaption(name) == name \in {"Delete AR caption", "Upload AR caption"}

\* operationName.includes('Caption')
IncludesUpperCaption(name) == name \in {"Caption verification for clip"}

\* what an attempt can throw: an axios error with a response status, or an
\* error without a response (status 0)
Errors ==
  { [status |-> 429, message |-> "Request failed with status code 429"],
    [status |-> 0,   message |-> "rate limit exceeded"],
    [status |-> 401, message |-> "Request failed with status code 401"],
    [status |-> 404, message |-> "Request failed with status code 404"],
    [status |-> 0,   message |-> "socket hang up"] }

\* error.message.includes('429') || .includes('rate limit') || .includes('too many requests')
MessageSaysRateLimit(msg) ==
  msg \in {"Request failed with status code 429", "rate limit exceeded"}

Ok == [status |-> 200, message |-> "OK"]

NoError == [status |-> 0, message |-> "none"]

IsRateLimitOrOther(error) == error.status # 401

IsRateLimit(error) == MessageSaysRateLimit(error.message) \/ error.status = 429

IsAuthError(error) == error.status = 401

\* how long a remote call takes (ms): less than the clock's resolution, or
\* long enough for a fresh credential to turn stale
Durations == {0, 2701000}

\* time between run()'s authenticate and the call of retryWithBackoff (ms)
StartDelays == {0, 2699000, 2701000}

TokenLifetime == 50 * 60 * 1000

RefreshMargin == 5 * 60 * 1000

RECURSIVE Pow(_, _)
Pow(b, e) == IF e = 0 THEN 1 ELSE b * Pow(b, e - 1)

\* the condition of ensureValidToken
TokenStaleNoMargin(token, expiry, t) ==
  token = Null \/ expiry = Null \/ t > expiry

TokenStale(token, expiry, t) ==
  token = Null \/ expiry = Null \/ t > expiry - RefreshMargin

\* if (operationName.includes('caption') || operationName.includes('Caption'))
NeedsTokenLowerOnly(name) == IncludesLowerCaption(name)

NeedsToken(name) == IncludesLowerCaption(name) \/ IncludesUpperCaption(name)

\* const waitTime = Math.min(...) * 1000
BackoffWaitUncapped(impl, a) ==
  IF impl = "part_003" THEN 2 * Pow(2, a) * 1000
  ELSE 30 * Pow(4, a - 1) * 1000

\* part_003: Math.min(2 * Math.pow(2, attempt), 60) * 1000
BackoffWaitPart003(a) == Min(2 * Pow(2, a), 60) * 1000

\* fast-processor.js: Math.min(30 * Math.pow(4, attempt - 1), 300) * 1000
BackoffWaitFast(a) == Min(30 * Pow(4, a - 1), 300) * 1000

BackoffWait(impl, a) ==
  IF impl = "part_003" THEN BackoffWaitPart003(a) ELSE BackoffWaitFast(a)

\* for (...; attempt <= maxRetries; ...)
LoopContinuesOnceMore(a, m) == a <= m + 1

LoopContinues(a, m) == a <= m

\* the attempt++ of the for statement, which `continue` in the 401 branch reaches
AttemptAfterAuthSame(a) == a

AttemptAfterAuth(a) == a + 1

RetryInit ==
  /\ rImpl \in Impls
  /\ rPc = "constructed"
  /\ operationName = "none"
  /\ maxRetries = 0
  /\ attempt = 0
  /\ lastError = NoError
  /\ thrown = NoError
  /\ accessToken = Null
  /\ tokenExpiry = Null
  /\ now = 0
  /\ invocations = 0
  /\ onlyRateLimited = FALSE
  /\ waitTime = 0
  /\ waitAttempt = 0
  /\ authErrors = 0

RetryParked ==
  /\ rImpl = "part_003"
  /\ rPc = "parked"
  /\ operationName = "none"
  /\ maxRetries = 0
  /\ attempt = 0
  /\ lastError = NoError
  /\ thrown = NoError
  /\ accessToken = Null
  /\ tokenExpiry = Null
  /\ now = 0
  /\ invocations = 0
  /\ onlyRateLimited = FALSE
  /\ waitTime = 0
  /\ waitAttempt = 0
  /\ authErrors = 0

\* run(): await this.authenticate(); a failure ends the process
RunAuthenticate(ok) ==
  /\ rPc = "constructed"
  /\ UNCHANGED nonRetryVars
  /\ IF ok
       THEN /\ accessToken' = 1
            /\ tokenExpiry' = now + TokenLifetime
            /\ rPc' = "ready"
       ELSE /\ UNCHANGED <<accessToken, tokenExpiry>>
            /\ rPc' = "exited"
  /\ UNCHANGED <<rImpl, operationName, maxRetries, attempt, lastError, thrown, now,
                 invocations, onlyRateLimited, waitTime, waitAttempt, authErrors>>

\* a stage calls retryWithBackoff(operation, operationName, maxRetries)
CallRetry(name, m, delay) ==
  /\ rPc = "ready"
  /\ UNCHANGED nonRetryVars
  /\ operationName' = name
  /\ maxRetries' = m
  /\ now' = now + delay
  /\ attempt' = 1
  /\ onlyRateLimited' = TRUE
  /\ rPc' = IF LoopContinues(1, m) THEN "try" ELSE "thrown"
  /\ UNCHANGED <<rImpl, lastError, thrown, accessToken, tokenExpiry, invocations,
                 waitTime, waitAttempt, authErrors>>

\* the head of the try block: ensureValidToken when the name asks for it,
\* then operation() is called
TryAttempt ==
  /\ rPc = "try"
  /\ UNCHANGED nonRetryVars
  /\ IF NeedsToken(operationName) /\ TokenStale(accessToken, tokenExpiry, now)
       THEN /\ rPc' = "ensure"
            /\ UNCHANGED invocations
       ELSE /\ rPc' = "op"
            /\ invocations' = Bump(invocations)
  /\ UNCHANGED <<rImpl, operationName, maxRetries, attempt, lastError, thrown, accessToken,
                 tokenExpiry, now, onlyRateLimited, waitTime, waitAttempt, authErrors>>

\* ensureValidToken's authenticate() settles: on success operation() is
\* called, a failure is caught by the attempt's catch
EnsureSettles(outcome, d) ==
  /\ rPc = "ensure"
  /\ UNCHANGED nonRetryVars
  /\ d = 0 \/ now + d <= MaxNow
  /\ now' = now + d
  /\ IF outcome = Ok
       THEN /\ accessToken' = 1
            /\ tokenExpiry' = now' + TokenLifetime
            /\ rPc' = "op"
            /\ invocations' = Bump(invocations)
            /\ UNCHANGED <<lastError, onlyRateLimited>>
       ELSE /\ lastError' = outcome
            /\ onlyRateLimited' = FALSE
            /\ rPc' = "catch"
            /\ UNCHANGED <<accessToken, tokenExpiry, invocations>>
  /\ UNCHANGED <<rImpl, operationName, maxRetries, attempt, thrown, waitTime, waitAttempt,
                 authErrors>>

\* operation() settles
OperationSettles(outcome, d) ==
  /\ rPc = "op"
  /\ UNCHANGED nonRetryVars
  /\ d = 0 \/ now + d <= MaxNow
  /\ now' = now + d
  /\ IF outcome = Ok
       THEN /\ rPc' = "returned"
            /\ onlyRateLimited' = FALSE
            /\ UNCHANGED <<lastError, authErrors>>
       ELSE /\ lastError' = outcome
            /\ onlyRateLimited' = (onlyRateLimited /\ outcome.status # 401
                                    /\ (outcome.status = 429 \/ MessageSaysRateLimit(outcome.message)))
            /\ authErrors' = IF outcome.status = 401 THEN Bump(authErrors) ELSE authErrors
            /\ rPc' = "catch"
  /\ UNCHANGED <<rImpl, operationName, maxRetries, attempt, thrown, accessToken, tokenExpiry,
                 invocations, waitTime, waitAttempt>>

\* the catch block up to its await (authenticate or the backoff timer) or throw
CatchError ==
  /\ rPc = "catch"
  /\ UNCHANGED nonRetryVars
  /\ IF IsAuthError(lastError) /\ IncludesLowerCaption(operationName)
       THEN /\ rPc' = "reauth"
            /\ UNCHANGED <<thrown, waitTime, waitAttempt>>
       ELSE IF IsRateLimit(lastError) /\ attempt < maxRetries
       THEN /\ waitTime' = BackoffWait(rImpl, attempt)
            /\ waitAttempt' = attempt
            /\ rPc' = "waiting"
            /\ UNCHANGED thrown
       ELSE /\ thrown' = lastError
            /\ rPc' = "thrown"
            /\ UNCHANGED <<waitTime, waitAttempt>>
  /\ UNCHANGED <<rImpl, operationName, maxRetries, attempt, lastError, accessToken, tokenExpiry,
                 now, invocations, onlyRateLimited, authErrors>>

\* the catch block's authenticate() settles: `continue`, or its error leaves
\* retryWithBackoff; after the loop: throw lastError
ReauthSettles(outcome, d) ==
  /\ rPc = "reauth"
  /\ UNCHANGED nonRetryVars
  /\ d = 0 \/ now + d <= MaxNow
  /\ now' = now + d
  /\ IF outcome = Ok
       THEN /\ accessToken' = 1
            /\ tokenExpiry' = now' + TokenLifetime
            /\ attempt' = AttemptAfterAuth(attempt)
            /\ IF LoopContinues(attempt', maxRetries)
                 THEN rPc' = "try" /\ UNCHANGED thrown
                 ELSE rPc' = "thrown" /\ thrown' = lastError
       ELSE /\ thrown' = outcome
            /\ rPc' = "thrown"
            /\ UNCHANGED <<accessToken, tokenExpiry, attempt>>
  /\ UNCHANGED <<rImpl, operationName, maxRetries, lastError, invocations, onlyRateLimited,
                 waitTime, waitAttempt, authErrors>>

\* the backoff timer fires: `continue`
BackoffElapses ==
  /\ rPc = "waiting"
  /\ UNCHANGED nonRetryVars
  /\ now' = now + waitTime
  /\ attempt' = attempt + 1
  /\ IF LoopContinues(attempt', maxRetries)
       THEN rPc' = "try" /\ UNCHANGED thrown
       ELSE rPc' = "thrown" /\ thrown' = lastError
  /\ UNCHANGED <<rImpl, operationName, maxRetries, lastError, accessToken, tokenExpiry,
                 invocations, onlyRateLimited, waitTime, waitAttempt, authErrors>>

RetryNext ==
  \/ \E ok \in BOOLEAN : RunAuthenticate(ok)
  \/ \E name \in OperationNames, m \in 1 .. MaxRetriesBound, delay \in StartDelays :
       CallRetry(name, m, delay)
  \/ TryAttempt
  \/ \E outcome \in {Ok} \cup Errors, d \in Durations : EnsureSettles(outcome, d)
  \/ \E outcome \in {Ok} \cup Errors, d \in Durations : OperationSettles(outcome, d)
  \/ CatchError
  \/ \E outcome \in {Ok} \cup Errors, d \in Durations : ReauthSettles(outcome, d)
  \/ BackoffElapses

(* --------------------------- processVideoFast -------------------------- *)
Languages == {"ar", "en", "fr", "es", "it"}

\* const maxProcessingRetries = 3 (src/unnamed/part_003), 2 (src/fast-processor.js)
MaxProcessingRetries == 3

MaxProcessingRetriesFast == 2

ProcessingRetriesOneMore(impl) ==
  IF impl = "part_003" THEN MaxProcessingRetries + 1 ELSE MaxProcessingRetriesFast + 1

ProcessingRetries(impl) ==
  IF impl = "part_003" THEN MaxProcessingRetries ELSE MaxProcessingRetriesFast

\* What verifyVideoProcessing reads of a file: whether it exists, whether it
\* contains one of the placeholder patterns, its size in bytes, and whether
\* one of its text lines is longer than 10 characters.
NoFile == [exists |-> FALSE, placeholder |-> FALSE, size |-> 0, substantive |-> FALSE]

GoodFile == [exists |-> TRUE, placeholder |-> FALSE, size |-> 240, substantive |-> TRUE]

PlaceholderFile == [exists |-> TRUE, placeholder |-> TRUE, size |-> 240, substantive |-> TRUE]

SmallFile == [exists |-> TRUE, placeholder |-> FALSE, size |-> 60, substantive |-> TRUE]

ThinFile == [exists |-> TRUE, placeholder |-> FALSE, size |-> 240, substantive |-> FALSE]

\* the output directory when processVideoFast is called
InitialArtifacts ==
  { [l \in Languages |-> NoFile],
    [l \in Languages |-> GoodFile],
    [l \in Languages |-> IF l = "it" THEN PlaceholderFile ELSE GoodFile],
    [l \in Languages |-> IF l = "en" THEN GoodFile ELSE NoFile] }

\* what the speech-to-text engine can write, and the language detected in it
Transcripts == {GoodFile, SmallFile, PlaceholderFile}

DetectedLanguages == {"en", "ar"}

\* the target languages whose translation throws in an attempt, and what a
\* translation that does not throw writes
FailingTranslations == { {}, {"fr"}, Languages }

TranslatedFiles == {GoodFile, ThinFile}

\* src/fast-processor.js: batchTranslateSubtitles pads a shortfall, and replaces
\* a failed batch, with '[LANG] source' lines, and translateVTTFast writes them
LenientFiles == {GoodFile, ThinFile, PlaceholderFile}

WritableTranslations(impl) == IF impl = "part_003" THEN TranslatedFiles ELSE LenientFiles

\* languages.every(lang => fs.existsSync(vttPath)); filterVideosToProcess
\* makes the same test inline
IsVideoNeverProcessed(arts) == FALSE

IsVideoAlreadyProcessed(arts) == \A l \in Languages : arts[l].exists

\* the checks of one language in verifyVideoProcessing
ArtifactIssueNoSize(file) ==
  IF ~file.exists THEN "missing"
  ELSE IF file.placeholder THEN "placeholder"
  ELSE IF ~file.substantive THEN "no substantial content"
  ELSE "none"

ArtifactIssue(file) ==
  IF ~file.exists THEN "missing"
  ELSE IF file.placeholder THEN "placeholder"
  ELSE IF file.size < 100 THEN "too small"
  ELSE IF ~file.substantive THEN "no substantial content"
  ELSE "none"

\* allIssues.length > 0 ? false : true
VerifyVideoProcessing(arts) == \A l \in Languages : ArtifactIssue(arts[l]) = "none"

\* src/fast-processor.js: only fs.pathExists of each file (UPLOAD_CAPTIONS unset)
VerifyVideoProcessingFast(arts) == \A l \in Languages : arts[l].exists

Gate(impl, arts) ==
  IF impl = "part_003" THEN VerifyVideoProcessing(arts) ELSE VerifyVideoProcessingFast(arts)

\* if (isComplete) { ...; return } else { throw }
AfterVerifyAlwaysReturns(complete) == "cleanup"

AfterVerify(complete) == IF complete THEN "cleanup" ELSE "throw"

NotReported == [list |-> "none", error |-> "none"]

ItemParked ==
  /\ pPc = "parked"
  /\ pAttempt = 0
  /\ skipExisting = FALSE
  /\ artifacts = << >>
  /\ isComplete = FALSE
  /\ verifiedAttempt = 0
  /\ originalLangCode = "none"
  /\ pError = "none"
  /\ pWait = 0
  /\ pImpl = "none"
  /\ artifactsAtStart = << >>
  /\ stageCalls = 0
  /\ failedTranslations = {}
  /\ padded = {}
  /\ reported = NotReported
  /\ tempFiles = {}

\* processVideoFast(video) is called by the pool: let attempt = 1
CallProcessVideoFast(impl, pc) ==
  /\ pPc = pc
  /\ pAttempt = 1
  /\ skipExisting \in BOOLEAN
  /\ artifacts \in InitialArtifacts
  /\ isComplete = FALSE
  /\ verifiedAttempt = 0
  /\ originalLangCode = "none"
  /\ pError = "none"
  /\ pWait = 0
  /\ pImpl = impl
  /\ artifactsAtStart = artifacts
  /\ stageCalls = 0
  /\ failedTranslations = {}
  /\ padded = {}
  /\ reported = NotReported
  /\ tempFiles = {}

ItemInit == CallProcessVideoFast("part_003", "loop")

\* the same call in src/fast-processor.js
FastItemInit == CallProcessVideoFast("fast-processor", "loop")

\* run(): the Item is in the catalog that fetchAllVideos returned
\* (PROCESS_LAST_N_DAYS and MAX_VIDEOS_TO_PROCESS unset)
RunInit == CallProcessVideoFast("part_003", "catalog")

\* const waitTime = Math.pow(2, attempt) * 1000
AttemptWaitFromOneSecond(a) == Pow(2, a - 1) * 1000

AttemptWait(a) == Pow(2, a) * 1000

\* the awaits of the try body follow one another: each stage is called when
\* the one before it has returned
StageAfterSkippingExtraction(stage) ==
  CASE stage = "clean" -> "download"
    [] stage = "download" -> "transcribe"
    [] stage = "extract" -> "transcribe"
    [] stage = "transcribe" -> "translate"
    [] stage = "translate" -> "verify"

StageAfter(stage) ==
  CASE stage = "clean" -> "download"
    [] stage = "download" -> "extract"
    [] stage = "extract" -> "transcribe"
    [] stage = "transcribe" -> "translate"
    [] stage = "translate" -> "verify"

\* the catch of the while body: rethrow on the last attempt, else wait
AttemptFails(message) ==
  /\ pError' = message
  /\ IF pAttempt = ProcessingRetries(pImpl)
       THEN /\ pPc' = "rejected"
            /\ UNCHANGED pWait
       ELSE /\ pPc' = "backoff"
            /\ pWait' = AttemptWait(pAttempt)

\* filterVideosToProcess: with skipExisting, a video whose five files exist
\* is dropped from the queue
FilterVideosToProcess ==
  /\ pPc = "catalog"
  /\ UNCHANGED nonItemVars
  /\ pPc' = IF skipExisting /\ IsVideoAlreadyProcessed(artifacts) THEN "skipped" ELSE "loop"
  /\ UNCHANGED <<pAttempt, skipExisting, artifacts, isComplete, verifiedAttempt,
                 originalLangCode, pError, pWait, itemObservers, tempFiles>>

\* while (attempt <= maxProcessingRetries) and the synchronous skip test
LoopHead ==
  /\ pPc = "loop"
  /\ UNCHANGED nonItemVars
  /\ pPc' = IF pAttempt > ProcessingRetries(pImpl) THEN "resolved"
            ELSE IF skipExisting /\ IsVideoAlreadyProcessed(artifacts) THEN "skipVerify"
            ELSE "clean"
  /\ UNCHANGED <<pAttempt, skipExisting, artifacts, isComplete, verifiedAttempt,
                 originalLangCode, pError, pWait, itemObservers, tempFiles>>

\* the double-check of an already processed video
SkipVerify ==
  /\ pPc = "skipVerify"
  /\ UNCHANGED nonItemVars
  /\ isComplete' = Gate(pImpl, artifacts)
  /\ verifiedAttempt' = pAttempt
  /\ pPc' = IF isComplete' THEN "resolved" ELSE "clean"
  /\ UNCHANGED <<pAttempt, skipExisting, artifacts, originalLangCode, pError, pWait,
                 itemObservers, tempFiles>>

\* deleteAllCaptionsForVideo: catches every error of its deletions
CleanCaptions ==
  /\ pPc = "clean"
  /\ UNCHANGED nonItemVars
  /\ pPc' = StageAfter("clean")
  /\ stageCalls' = stageCalls + 1
  /\ UNCHANGED <<pAttempt, skipExisting, artifacts, isComplete, verifiedAttempt,
                 originalLangCode, pError, pWait>>
  /\ UNCHANGED <<pImpl, artifactsAtStart, failedTranslations, padded, reported, tempFiles>>

Download(ok) ==
  /\ pPc = "download"
  /\ UNCHANGED nonItemVars
  /\ IF ok THEN /\ pPc' = StageAfter("download")
                 /\ tempFiles' = tempFiles \cup {"video"}
                 /\ UNCHANGED <<pError, pWait>>
           ELSE /\ AttemptFails("download failed")
                /\ UNCHANGED tempFiles
  /\ stageCalls' = stageCalls + 1
  /\ UNCHANGED <<pAttempt, skipExisting, artifacts, isComplete, verifiedAttempt,
                 originalLangCode>>
  /\ UNCHANGED <<pImpl, artifactsAtStart, failedTranslations, padded, reported>>

ExtractAudio(ok) ==
  /\ pPc = "extract"
  /\ UNCHANGED nonItemVars
  /\ IF ok THEN /\ pPc' = StageAfter("extract")
                 /\ tempFiles' = tempFiles \cup {"audio"}
                 /\ UNCHANGED <<pError, pWait>>
           ELSE /\ AttemptFails("ffmpeg failed")
                /\ UNCHANGED tempFiles
  /\ stageCalls' = stageCalls + 1
  /\ UNCHANGED <<pAttempt, skipExisting, artifacts, isComplete, verifiedAttempt,
                 originalLangCode>>
  /\ UNCHANGED <<pImpl, artifactsAtStart, failedTranslations, padded, reported>>

\* transcribeWithWhisper, detectLanguage, and the write of the original VTT
Transcribe(ok, transcript, lang) ==
  /\ pPc = "transcribe"
  /\ UNCHANGED nonItemVars
  /\ IF ok
       THEN /\ artifacts' = [artifacts EXCEPT ![lang] = transcript]
            /\ originalLangCode' = lang
            /\ padded' = padded \ {lang}
            /\ tempFiles' = tempFiles \cup {"transcript"}
            /\ pPc' = StageAfter("transcribe")
            /\ UNCHANGED <<pError, pWait>>
       ELSE /\ AttemptFails("VTT file not generated by Whisper")
            /\ UNCHANGED <<artifacts, originalLangCode, padded, tempFiles>>
  /\ stageCalls' = stageCalls + 1
  /\ UNCHANGED <<pAttempt, skipExisting, isComplete, verifiedAttempt>>
  /\ UNCHANGED <<pImpl, artifactsAtStart, failedTranslations, reported>>

\* execAsync(command) is called without a timeout: while the whisper process
\* neither exits nor fails, the await of transcribeWithWhisper stays pending
WhisperHangs ==
  /\ pPc = "transcribe"
  /\ UNCHANGED nonItemVars
  /\ pPc' = "hung"
  /\ stageCalls' = stageCalls + 1
  /\ UNCHANGED <<pAttempt, skipExisting, artifacts, isComplete, verifiedAttempt,
                 originalLangCode, pError, pWait>>
  /\ UNCHANGED <<pImpl, artifactsAtStart, failedTranslations, padded, reported, tempFiles>>

\* the translations of the target languages: each writes its file, or its
\* error is caught and the file is left as it was
Translate(failing, file) ==
  /\ pPc = "translate"
  /\ UNCHANGED nonItemVars
  /\ file \in WritableTranslations(pImpl)
  /\ LET saved == {l \in Languages : l # originalLangCode /\ l \notin failing}
     IN  /\ artifacts' = [l \in Languages |-> IF l \in saved THEN file ELSE artifacts[l]]
         /\ padded' = IF file = PlaceholderFile THEN padded \cup saved
                                                ELSE padded \ saved
  /\ failedTranslations' = failing \ {originalLangCode}
  /\ stageCalls' = stageCalls + 1
  /\ pPc' = StageAfter("translate")
  /\ UNCHANGED <<pAttempt, skipExisting, isComplete, verifiedAttempt, originalLangCode,
                 pError, pWait>>
  /\ UNCHANGED <<pImpl, artifactsAtStart, reported, tempFiles>>

\* const isComplete = await this.verifyVideoProcessing(video, filename)
Verify ==
  /\ pPc = "verify"
  /\ UNCHANGED nonItemVars
  /\ isComplete' = Gate(pImpl, artifacts)
  /\ verifiedAttempt' = pAttempt
  /\ IF AfterVerify(isComplete') = "cleanup"
       THEN pPc' = "cleanup" /\ UNCHANGED <<pError, pWait>>
       ELSE AttemptFails("Video processing verification failed")
  /\ UNCHANGED <<pAttempt, skipExisting, artifacts, originalLangCode, itemObservers,
                 tempFiles>>

\* fs.remove of the video and the audio, then return
Cleanup(ok) ==
  /\ pPc = "cleanup"
  /\ UNCHANGED nonItemVars
  /\ IF ok THEN /\ pPc' = "resolved"
                 /\ tempFiles' = tempFiles \ {"video", "audio"}
                 /\ UNCHANGED <<pError, pWait>>
           ELSE /\ AttemptFails("remove failed")
                /\ UNCHANGED tempFiles
  /\ UNCHANGED <<pAttempt, skipExisting, artifacts, isComplete, verifiedAttempt,
                 originalLangCode, itemObservers>>

\* the timer between attempts fires: attempt++
NextAttempt ==
  /\ pPc = "backoff"
  /\ UNCHANGED nonItemVars
  /\ pAttempt' = pAttempt + 1
  /\ failedTranslations' = {}
  /\ pPc' = "loop"
  /\ UNCHANGED <<skipExisting, artifacts, isComplete, verifiedAttempt, originalLangCode,
                 pError, pWait>>
  /\ UNCHANGED <<pImpl, artifactsAtStart, stageCalls, padded, reported, tempFiles>>

\* processNext: results.push({ video, success: true }) in then, or
\* errors.push({ video, error: error.message }) in catch; it never rethrows
ReportItem ==
  /\ pPc \in {"resolved", "rejected"}
  /\ UNCHANGED nonItemVars
  /\ reported' = IF pPc = "resolved" THEN [list |-> "results", error |-> "none"]
                                     ELSE [list |-> "errors", error |-> pError]
  /\ pPc' = "settled"
  /\ UNCHANGED <<pAttempt, skipExisting, artifacts, isComplete, verifiedAttempt,
                 originalLangCode, pError, pWait>>
  /\ UNCHANGED <<pImpl, artifactsAtStart, stageCalls, failedTranslations, padded, tempFiles>>

ItemNext ==
  \/ LoopHead
  \/ SkipVerify
  \/ CleanCaptions
  \/ \E ok \in BOOLEAN : Download(ok)
  \/ \E ok \in BOOLEAN : ExtractAudio(ok)
  \/ \E ok \in BOOLEAN, t \in Transcripts, l \in DetectedLanguages : Transcribe(ok, t, l)
  \/ WhisperHangs
  \/ \E f \in FailingTranslations, t \in LenientFiles : Translate(f, t)
  \/ Verify
  \/ \E ok \in BOOLEAN : Cleanup(ok)
  \/ NextAttempt
  \/ ReportItem

RunNext ==
  \/ FilterVideosToProcess
  \/ ItemNext

(* ------------- translateVTTFast and batchTranslateSubtitles ------------ *)
MaxTextUnits == 3

MaxBatchSize == 3

\* retryWithBackoff(operation, operationName, maxRetries = 5)
DefaultMaxRetries == 5

SourceTexts ==
  << "Hello everyone", "Welcome back to the show", "Thanks for watching",
     "See you soon", "Good night" >>

Timings ==
  << "00:00:01.000 --> 00:00:02.000", "00:00:02.000 --> 00:00:04.000",
     "00:00:04.000 --> 00:00:06.000", "00:00:06.000 --> 00:00:08.000",
     "00:00:08.000 --> 00:00:09.000" >>

Range(seq) == {seq[i] : i \in DOMAIN seq}

\* the lines of the documents and of the answers, without surrounding whitespace
UnpaddedLines ==
  {"WEBVTT", "", "align:start", "Bonjour a tous", "Bon retour", "ok"}
    \cup Range(Timings) \cup Range(SourceTexts)

\* a line with whitespace before it, after it, or both
PaddedForms == [t \in UnpaddedLines |-> {" " \o t, t \o " ", " " \o t \o " "}]

\* String.prototype.trim
Trim(line) ==
  IF \E t \in UnpaddedLines : line \in PaddedForms[t]
    THEN CHOOSE t \in UnpaddedLines : line \in PaddedForms[t]
    ELSE line

\* a line after a numbering such as '2. '
NumberedForms ==
  [t \in UnpaddedLines \cup {u \o " " : u \in UnpaddedLines} |->
     {n \o t : n \in {"1. ", "2. ", "3. ", "4. ", "5. "}}]

\* line.replace(/^\d+\.\s*/, '')
StripNumbering(line) ==
  IF \E t \in DOMAIN NumberedForms : line \in NumberedForms[t]
    THEN CHOOSE t \in DOMAIN NumberedForms : line \in NumberedForms[t]
    ELSE line

\* `[${targetLanguage.toUpperCase()}]`
Tag(lang) ==
  CASE lang = "ar" -> "[AR]"
    [] lang = "en" -> "[EN]"
    [] lang = "fr" -> "[FR]"
    [] lang = "es" -> "[ES]"
    [] lang = "it" -> "[IT]"

AllTags == {Tag(l) : l \in Languages}

\* `[${targetLanguage.toUpperCase()}] ${subtitle}` of src/fast-processor.js
Pad(target, subtitle) == Tag(target) \o " " \o subtitle

\* the lines that contain a tag
TaggedLines ==
  [tag \in AllTags |-> {tag \o " " \o t : t \in Range(SourceTexts)}]

\* line.includes(tag)
IncludesTag(line, tag) == line \in TaggedLines[tag]

\* line.toLowerCase().includes(word)
LowerIncludes(line, word) ==
  CASE word = "placeholder" -> line \in {"PLACEHOLDER", "placeholder"}
    [] word = "translation" -> line \in {"Translation failed", "translation failed"}

\* line.startsWith('WEBVTT') || line === '' || line.includes('-->') ||
\* line.match(/^(align:|line:|position:|size:|vertical:)/)
IsNonText(line) ==
  \/ line = "WEBVTT"
  \/ line = ""
  \/ line \in Range(Timings)
  \/ line = "align:start"

\* the documents handed to translateVTTFast: k cues, as the speech-to-text
\* engine writes them ("plain"), with surrounding whitespace and a cue
\* setting line ("padded"), or one cue of k text lines ("dense")
Styles == {"plain", "padded", "dense"}

Cue(i, style) ==
  IF style = "plain"
    THEN << Timings[i], SourceTexts[i], "" >>
    ELSE << Timings[i] \o " ", "align:start ", " " \o SourceTexts[i], "  " >>

RECURSIVE Cues(_, _)
Cues(k, style) == IF k = 0 THEN << >> ELSE Cues(k - 1, style) \o Cue(k, style)

Document(k, style) ==
  IF style = "dense"
    THEN << "WEBVTT", Timings[1] >> \o SubSeq(SourceTexts, 1, k)
    ELSE << "WEBVTT", "" >> \o Cues(k, style)

Docs == {Document(k, style) : k \in 0 .. MaxTextUnits, style \in Styles}

Targets == {"fr", "ar"}

BatchSizes == 1 .. MaxBatchSize

\* the lines the translation service can answer with
ResponseLines ==
  { "Bonjour a tous", "2. Bon retour ", "", "Hello everyone", "[FR] Hello everyone",
    "ok", "Translation failed" }

\* the answers to a request for n translations: up to n + 1 lines
Responses(n) == UNION { [1 .. k -> ResponseLines] : k \in 0 .. n + 1 }

\* Array.prototype.slice(a, b)
Slice(seq, a, b) == SubSeq(seq, a + 1, Min(b, Len(seq)))

NonEmpty(line) == Len(line) > 0

\* line => line.replace(/^\d+\.\s*/, '').trim(), for each line of an answer
CleanedLine == [line \in ResponseLines |-> Trim(StripNumbering(line))]

\* response.split('\n').map(strip, trim).filter(non-empty).slice(0, n)
ParseResponse(response, n) ==
  LET cleaned == [i \in 1 .. Len(response) |-> CleanedLine[response[i]]]
  IN  Slice(SelectSeq(cleaned, NonEmpty), 0, n)

\* the validation of one translation against its subtitle
InvalidTranslationNever(translation, original, target) == FALSE

InvalidTranslation(translation, original, target) ==
  \/ IncludesTag(translation, Tag(target))
  \/ translation = original
  \/ LowerIncludes(translation, "placeholder")
  \/ LowerIncludes(translation, "translation")
  \/ Len(translation) < 3

\* batchTranslateSubtitles on the answer of the service: the translations,
\* or the message of the error it throws
BatchTranslateSubtitlesLenient(subtitles, target, response) ==
  LET parsed == ParseResponse(response, Len(subtitles))
  IN  [error |-> "none",
       translations |-> [i \in 1 .. Len(subtitles) |->
                           IF i <= Len(parsed) THEN parsed[i] ELSE Pad(target, subtitles[i])]]

BatchTranslateSubtitles(subtitles, target, response) ==
  LET parsed == ParseResponse(response, Len(subtitles))
  IN  IF Len(parsed) < Len(subtitles)
        THEN [error |-> "Translation incomplete", translations |-> << >>]
      ELSE IF \E i \in 1 .. Len(parsed) : InvalidTranslation(parsed[i], subtitles[i], target)
        THEN [error |-> "Invalid translation detected", translations |-> << >>]
      ELSE [error |-> "none", translations |-> parsed]

\* const line = vttLines[i].trim(), for each line of a document
TrimmedLine == [line \in UNION {Range(doc) : doc \in Docs} |-> Trim(line)]

\* the first loop of translateVTTFast
TranslatedLinesOf(lines) ==
  [i \in 1 .. Len(lines) |->
     IF IsNonText(TrimmedLine[lines[i]]) THEN TrimmedLine[lines[i]] ELSE "PLACEHOLDER"]

IsText(line) == ~IsNonText(line)

SubtitleTextsOf(lines) ==
  SelectSeq([i \in 1 .. Len(lines) |-> TrimmedLine[lines[i]]], IsText)

\* subtitleTexts.slice(i, i + this.batchSize), and i += this.batchSize
BatchAt(texts, i, size) == Slice(texts, i, i + size)

NextBatchIndexByOne(i, size) == i + 1

NextBatchIndex(i, size) == i + size

\* translations[translationIndex]
TranslationAtFirst(trans, index) == IF Len(trans) > 0 THEN trans[1] ELSE "undefined"

TranslationAt(trans, index) == IF index < Len(trans) THEN trans[index + 1] ELSE "undefined"

\* the loop that replaces each 'PLACEHOLDER' entry by the next translation:
\* translationIndex is the number of 'PLACEHOLDER' entries before the line
Reconstruct(lines, trans) ==
  [i \in 1 .. Len(lines) |->
     IF lines[i] = "PLACEHOLDER"
       THEN TranslationAt(trans, Cardinality({j \in 1 .. i - 1 : lines[j] = "PLACEHOLDER"}))
       ELSE lines[i]]

\* translatedVTT.includes('[AR]') || ... || translatedVTT.includes('PLACEHOLDER')
FinalValidationFails(lines) ==
  \E i \in 1 .. Len(lines) :
     \/ \E tag \in AllTags : IncludesTag(lines[i], tag)
     \/ lines[i] = "PLACEHOLDER"

\* the end of translateVTTFast, once every batch has been translated
FinishTranslation(lines, texts, all) ==
  LET out == Reconstruct(lines, all)
  IN  IF Len(all) # Len(texts)
        THEN [pc |-> "thrown", error |-> "Translation count mismatch", doc |-> << >>]
      ELSE IF FinalValidationFails(out)
        THEN [pc |-> "thrown", error |-> "Translation contains placeholder text",
              doc |-> << >>]
      ELSE [pc |-> "returned", error |-> "none", doc |-> out]

StageParked ==
  /\ tPc = "parked"
  /\ vttLines = << >>
  /\ targetLanguage = "none"
  /\ batchSize = 1
  /\ translatedLines = << >>
  /\ subtitleTexts = << >>
  /\ batchIndex = 0
  /\ translations = << >>
  /\ tAttempt = 0
  /\ translatedVTT = << >>
  /\ tError = "none"
  /\ written = << >>
  /\ batches = << >>
  /\ requests = 0
  /\ retried = FALSE
  /\ offered = 0

\* processVideoFast is about to call translateVTTFast(originalVtt, targetLang)
\* (initialize() has thrown unless llmAvailable)
StageInit ==
  /\ tPc = "call"
  /\ vttLines \in Docs
  /\ targetLanguage \in Targets
  /\ batchSize \in BatchSizes
  /\ translatedLines = << >>
  /\ subtitleTexts = << >>
  /\ batchIndex = 0
  /\ translations = << >>
  /\ tAttempt = 0
  /\ translatedVTT = << >>
  /\ tError = "none"
  /\ written = << >>
  /\ batches = << >>
  /\ requests = 0
  /\ retried = FALSE
  /\ offered = 0

CurrentBatch == BatchAt(subtitleTexts, batchIndex, batchSize)

\* translateVTTFast up to its first await: the parse of the document and
\* the request for the first batch
CallTranslateVTTFast ==
  /\ tPc = "call"
  /\ UNCHANGED nonStageVars
  /\ translatedLines' = TranslatedLinesOf(vttLines)
  /\ subtitleTexts' = SubtitleTextsOf(vttLines)
  /\ batchIndex' = 0
  /\ IF Len(subtitleTexts') = 0
       THEN /\ tPc' = "thrown"
            /\ tError' = "No subtitle text found to translate in VTT content"
            /\ UNCHANGED <<batches, requests, tAttempt>>
       ELSE /\ tPc' = "request"
            /\ batches' = << BatchAt(subtitleTexts', 0, batchSize) >>
            /\ requests' = 1
            /\ tAttempt' = 1
            /\ UNCHANGED tError
  /\ UNCHANGED <<vttLines, targetLanguage, batchSize, translations, translatedVTT,
                 written, retried, offered>>

\* the service answers the request of the current batch: the rest of
\* batchTranslateSubtitles, then the batch loop, up to the next await
ServiceResponds(response) ==
  /\ tPc = "request"
  /\ UNCHANGED nonStageVars
  /\ offered' = Cardinality({i \in 1 .. Len(response) : response[i] # ""})
  /\ LET result == BatchTranslateSubtitles(CurrentBatch, targetLanguage, response)
         all == translations \o result.translations
         end == FinishTranslation(translatedLines, subtitleTexts, all)
     IN  IF result.error # "none"
           THEN /\ tPc' = "thrown"
                /\ tError' = result.error
                /\ UNCHANGED <<translations, translatedVTT>>
         ELSE IF batchIndex + batchSize < Len(subtitleTexts)
           THEN /\ tPc' = "delay"
                /\ translations' = all
                /\ UNCHANGED <<tError, translatedVTT>>
         ELSE /\ tPc' = end.pc
              /\ translations' = all
              /\ translatedVTT' = end.doc
              /\ tError' = end.error
  /\ UNCHANGED <<vttLines, targetLanguage, batchSize, translatedLines, subtitleTexts,
                 batchIndex, tAttempt, written, batches, requests, retried>>

\* the request of the current batch fails: the catch of retryWithBackoff
\* ('Batch translation to XX' names no caption, so a 401 is not retried)
ServiceFails(error) ==
  /\ tPc = "request"
  /\ UNCHANGED nonStageVars
  /\ IF IsRateLimit(error) /\ tAttempt < DefaultMaxRetries
       THEN /\ tPc' = "backoff"
            /\ UNCHANGED tError
       ELSE /\ tPc' = "thrown"
            /\ tError' = error.message
  /\ UNCHANGED <<vttLines, targetLanguage, batchSize, translatedLines, subtitleTexts,
                 batchIndex, translations, tAttempt, translatedVTT, written, batches,
                 requests, retried, offered>>

\* the backoff timer fires: attempt++ and the same prompt is sent again
BackoffThenRequest ==
  /\ tPc = "backoff"
  /\ UNCHANGED nonStageVars
  /\ tAttempt' = tAttempt + 1
  /\ requests' = requests + 1
  /\ retried' = TRUE
  /\ tPc' = "request"
  /\ UNCHANGED <<vttLines, targetLanguage, batchSize, translatedLines, subtitleTexts,
                 batchIndex, translations, translatedVTT, tError, written, batches,
                 offered>>

\* the 500 ms between batches are over: i += this.batchSize and the request
\* for the next batch
NextBatch ==
  /\ tPc = "delay"
  /\ UNCHANGED nonStageVars
  /\ batchIndex' = NextBatchIndex(batchIndex, batchSize)
  /\ batches' = Append(batches, BatchAt(subtitleTexts, batchIndex', batchSize))
  /\ requests' = 1
  /\ tAttempt' = 1
  /\ tPc' = "request"
  /\ UNCHANGED <<vttLines, targetLanguage, batchSize, translatedLines, subtitleTexts,
                 translations, translatedVTT, tError, written, retried, offered>>

\* processVideoFast: await fs.writeFile(translatedVttPath, translatedVtt)
WriteArtifact ==
  /\ tPc = "returned"
  /\ UNCHANGED nonStageVars
  /\ written' = translatedVTT
  /\ tPc' = "written"
  /\ UNCHANGED <<vttLines, targetLanguage, batchSize, translatedLines, subtitleTexts,
                 batchIndex, translations, tAttempt, translatedVTT, tError, batches,
                 requests, retried, offered>>

\* processVideoFast: the catch of the language's translation
CatchTranslationError ==
  /\ tPc = "thrown"
  /\ UNCHANGED nonStageVars
  /\ tPc' = "caught"
  /\ UNCHANGED <<vttLines, targetLanguage, batchSize, translatedLines, subtitleTexts,
                 batchIndex, translations, tAttempt, translatedVTT, tError, written,
                 batches, requests, retried, offered>>

StageNext ==
  \/ CallTranslateVTTFast
  \/ \E response \in Responses(Len(CurrentBatch)) : ServiceResponds(response)
  \/ \E error \in Errors : ServiceFails(error)
  \/ BackoffThenRequest
  \/ NextBatch
  \/ WriteArtifact
  \/ CatchTranslationError

(* ------- processVideoFast: translations, uploads and the gate ---------- *)
\* const languages = ['ar', 'en', 'fr', 'es', 'it']
LanguageOrder == <<"ar", "en", "fr", "es", "it">>

\* languages.filter(lang => lang !== originalLangCode)
TargetLanguages(orig) == SelectSeq(LanguageOrder, LAMBDA l : l # orig)

\* the language the for loop of src/fast-processor.js takes after l
NextTarget(l) ==
  LET targets == TargetLanguages(uOriginal)
      i == CHOOSE k \in 1..Len(targets) : targets[k] = l
  IN  IF i < Len(targets) THEN targets[i + 1] ELSE "none"

\* parseInt(process.env.MAX_CONCURRENT_TRANSLATIONS) || 5 (|| 1 in src/fast-processor.js)
TranslationCeilings(impl) == IF impl = "part_003" THEN {2, 5} ELSE {1}

\* the language detected in the transcript of the attempt
PublishOriginals == {"en"}

\* what translateVTTFast does for a language: it returns a document that
\* passes the gate, one that does not, or it throws
TranslationOutcomes == {"valid", "invalid", "throws"}

\* the answers of api.video to POST /videos/:id/captions/:lang once
\* retryWithBackoff has given its result
Created == [status |-> 201, detail |-> "created"]

CaptionExists == [status |-> 400, detail |-> "Caption already exists"]

UploadResponses ==
  { Created, CaptionExists,
    [status |-> 400, detail |-> "Invalid file"],
    [status |-> 429, detail |-> "Too many requests"] }

\* error.response?.status === 400 && error.response?.data?.detail?.includes('Caption already exists')
IsCaptionConflictNever(error) == FALSE

IsCaptionConflict(error) == error.status = 400 /\ error.detail = "Caption already exists"

\* what the listing of the remote captions shows to the verification
RemoteAnswers == {"present", "missing", "rate-limited", "api-error"}

\* the return value of verifyVideoProcessing once the remote captions were
\* looked at: src/unnamed/part_003 only logs what it saw, src/fast-processor.js
\* pushes every caption it did not see, and every error, to missing
VerifyWithRemote(impl, localComplete, answer) ==
  IF impl = "part_003" THEN localComplete
  ELSE localComplete /\ answer = "present"

PublishParked ==
  /\ uImpl = "none"
  /\ uPc = "parked"
  /\ uploadCaptions = FALSE
  /\ maxConcurrentTranslations = 0
  /\ uOriginal = "none"
  /\ lane = << >>
  /\ translationResults = << >>
  /\ outputFiles = << >>
  /\ uploaded = {}
  /\ uploadReturn = << >>
  /\ conflicted = {}
  /\ remoteAnswer = "none"

\* the attempt has written the original VTT (line 528) and is about to
\* translate
PublishInit ==
  /\ uImpl \in Impls
  /\ uPc = "fanout"
  /\ uploadCaptions \in BOOLEAN
  /\ maxConcurrentTranslations \in TranslationCeilings(uImpl)
  /\ uOriginal \in PublishOriginals
  /\ lane = [l \in Languages |-> "idle"]
  /\ translationResults = [l \in Languages |-> "none"]
  /\ outputFiles = [l \in Languages |-> IF l = uOriginal THEN GoodFile ELSE NoFile]
  /\ uploaded = {}
  /\ uploadReturn = [l \in Languages |-> "none"]
  /\ conflicted = {}
  /\ remoteAnswer = "none"

\* the language's async function returns { success: true }: in
\* src/fast-processor.js the loop then waits 10 s unless it was the last
LaneAfterSuccess(l) ==
  IF uImpl = "fast-processor" /\ NextTarget(l) # "none"
    THEN [lane EXCEPT ![l] = "pausing"]
    ELSE [lane EXCEPT ![l] = "settled"]

\* the catch of the language: in src/fast-processor.js the loop goes on
\* with the next language at once
LaneAfterFailure(l) ==
  IF uImpl = "fast-processor" /\ NextTarget(l) # "none"
    THEN [lane EXCEPT ![l] = "settled", ![NextTarget(l)] = "translating"]
    ELSE [lane EXCEPT ![l] = "settled"]

\* targetLanguages.map(async ...) calls translateVTTFast for every target
\* language before the first of them settles; the for loop of
\* src/fast-processor.js calls it for the first one
StartTranslations ==
  /\ uPc = "fanout"
  /\ UNCHANGED nonPublishVars
  /\ lane' = IF uImpl = "part_003"
               THEN [l \in Languages |-> IF l # uOriginal THEN "translating" ELSE "idle"]
               ELSE [lane EXCEPT ![Head(TargetLanguages(uOriginal))] = "translating"]
  /\ uPc' = "awaitAll"
  /\ UNCHANGED <<uImpl, uploadCaptions, maxConcurrentTranslations, uOriginal,
                 translationResults, outputFiles, uploaded, uploadReturn, conflicted,
                 remoteAnswer>>

\* translateVTTFast settles; the file is written and, with UPLOAD_CAPTIONS,
\* uploadCaptionToApiVideo sends its first POST
TranslationSettles(l, outcome) ==
  /\ uPc = "awaitAll"
  /\ lane[l] = "translating"
  /\ UNCHANGED nonPublishVars
  /\ IF outcome = "throws"
       THEN /\ translationResults' = [translationResults EXCEPT ![l] = "failed"]
            /\ lane' = LaneAfterFailure(l)
            /\ UNCHANGED outputFiles
       ELSE /\ outputFiles' = [outputFiles EXCEPT
                                 ![l] = IF outcome = "valid" THEN GoodFile ELSE ThinFile]
            /\ IF uploadCaptions
                 THEN /\ lane' = [lane EXCEPT ![l] = "posting"]
                      /\ UNCHANGED translationResults
                 ELSE /\ lane' = LaneAfterSuccess(l)
                      /\ translationResults' = [translationResults EXCEPT ![l] = "success"]
  /\ UNCHANGED <<uImpl, uPc, uploadCaptions, maxConcurrentTranslations, uOriginal,
                 uploaded, uploadReturn, conflicted, remoteAnswer>>

\* the first POST settles: return true, or the catch of uploadCaptionToApiVideo
PostSettles(l, response) ==
  /\ uPc = "awaitAll"
  /\ lane[l] = "posting"
  /\ UNCHANGED nonPublishVars
  /\ conflicted' = IF response = CaptionExists THEN conflicted \cup {l} ELSE conflicted
  /\ IF response = Created
       THEN /\ uploaded' = uploaded \cup {l}
            /\ uploadReturn' = [uploadReturn EXCEPT ![l] = "true"]
            /\ translationResults' = [translationResults EXCEPT ![l] = "success"]
            /\ lane' = LaneAfterSuccess(l)
       ELSE IF IsCaptionConflict(response)
         THEN /\ lane' = [lane EXCEPT ![l] = "deleting"]
              /\ UNCHANGED <<uploaded, uploadReturn, translationResults>>
         ELSE /\ uploadReturn' = [uploadReturn EXCEPT ![l] = "false"]
              /\ translationResults' = [translationResults EXCEPT ![l] = "success"]
              /\ lane' = LaneAfterSuccess(l)
              /\ UNCHANGED uploaded
  /\ UNCHANGED <<uImpl, uPc, uploadCaptions, maxConcurrentTranslations, uOriginal,
                 outputFiles, remoteAnswer>>

\* the DELETE of the existing caption settles
DeleteSettles(l, ok) ==
  /\ uPc = "awaitAll"
  /\ lane[l] = "deleting"
  /\ UNCHANGED nonPublishVars
  /\ IF ok
       THEN /\ lane' = [lane EXCEPT ![l] = "waiting"]
            /\ UNCHANGED <<uploadReturn, translationResults>>
       ELSE /\ uploadReturn' = [uploadReturn EXCEPT ![l] = "false"]
            /\ translationResults' = [translationResults EXCEPT ![l] = "success"]
            /\ lane' = LaneAfterSuccess(l)
  /\ UNCHANGED <<uImpl, uPc, uploadCaptions, maxConcurrentTranslations, uOriginal,
                 outputFiles, uploaded, conflicted, remoteAnswer>>

\* the 1 s timer fires and the POST is sent again
WaitElapses(l) ==
  /\ uPc = "awaitAll"
  /\ lane[l] = "waiting"
  /\ UNCHANGED nonPublishVars
  /\ lane' = [lane EXCEPT ![l] = "reposting"]
  /\ UNCHANGED <<uImpl, uPc, uploadCaptions, maxConcurrentTranslations, uOriginal,
                 translationResults, outputFiles, uploaded, uploadReturn, conflicted,
                 remoteAnswer>>

\* the second POST settles: return true, or return false in catch (retryError)
RepostSettles(l, response) ==
  /\ uPc = "awaitAll"
  /\ lane[l] = "reposting"
  /\ UNCHANGED nonPublishVars
  /\ IF response = Created
       THEN /\ uploaded' = uploaded \cup {l}
            /\ uploadReturn' = [uploadReturn EXCEPT ![l] = "true"]
       ELSE /\ uploadReturn' = [uploadReturn EXCEPT ![l] = "false"]
            /\ UNCHANGED uploaded
  /\ translationResults' = [translationResults EXCEPT ![l] = "success"]
  /\ lane' = LaneAfterSuccess(l)
  /\ UNCHANGED <<uImpl, uPc, uploadCaptions, maxConcurrentTranslations, uOriginal,
                 outputFiles, conflicted, remoteAnswer>>

\* src/fast-processor.js: the 10 s timer between two languages fires
PauseElapses(l) ==
  /\ uPc = "awaitAll"
  /\ lane[l] = "pausing"
  /\ UNCHANGED nonPublishVars
  /\ lane' = [lane EXCEPT ![l] = "settled", ![NextTarget(l)] = "translating"]
  /\ UNCHANGED <<uImpl, uPc, uploadCaptions, maxConcurrentTranslations, uOriginal,
                 translationResults, outputFiles, uploaded, uploadReturn, conflicted,
                 remoteAnswer>>

\* every translation has settled (await Promise.all, or the end of the
\* loop): verifyVideoProcessing checks the local files
VerifyLocalFiles ==
  /\ uPc = "awaitAll"
  /\ \A l \in Languages : l # uOriginal => lane[l] = "settled"
  /\ UNCHANGED nonPublishVars
  /\ uPc' = IF uploadCaptions /\ (uImpl = "fast-processor" \/ Gate(uImpl, outputFiles))
              THEN "remoteCheck"
              ELSE IF Gate(uImpl, outputFiles) THEN "accepted" ELSE "refused"
  /\ UNCHANGED <<uImpl, uploadCaptions, maxConcurrentTranslations, uOriginal, lane,
                 translationResults, outputFiles, uploaded, uploadReturn, conflicted,
                 remoteAnswer>>

\* the listing of the remote captions settles and verifyVideoProcessing returns
RemoteCheckSettles(answer) ==
  /\ uPc = "remoteCheck"
  /\ UNCHANGED nonPublishVars
  /\ remoteAnswer' = answer
  /\ uPc' = IF VerifyWithRemote(uImpl, Gate(uImpl, outputFiles), answer)
              THEN "accepted" ELSE "refused"
  /\ UNCHANGED <<uImpl, uploadCaptions, maxConcurrentTranslations, uOriginal, lane,
                 translationResults, outputFiles, uploaded, uploadReturn, conflicted>>

PublishNext ==
  \/ StartTranslations
  \/ \E l \in Languages, o \in TranslationOutcomes : TranslationSettles(l, o)
  \/ \E l \in Languages, r \in UploadResponses : PostSettles(l, r)
  \/ \E l \in Languages, ok \in BOOLEAN : DeleteSettles(l, ok)
  \/ \E l \in Languages : WaitElapses(l)
  \/ \E l \in Languages, r \in UploadResponses : RepostSettles(l, r)
  \/ \E l \in Languages : PauseElapses(l)
  \/ VerifyLocalFiles
  \/ \E a \in RemoteAnswers : RemoteCheckSettles(a)

(* ------------------ file paths of two Items in flight ------------------ *)
\* the characters of the titles: \w is [A-Za-z0-9_], \s is white space,
\* "meem" stands for the Arabic letter U+0645; "!" and "." are neither
WordChars == {"A", "b", "C", "d", "_"}

SpaceChars == {" "}

ArabicChars == {"meem"}

\* video.title of the catalog's videos
Titles ==
  { <<"A", "b">>, <<"A", "b", "!">>, <<"A", " ", "b">>, <<"A", " ", " ", "b">>,
    <<"A", "_", "b">>, <<"C", ".", "d">>, <<"meem", "-", "b">> }

\* .substring(0, 100)
FilenameLimit == 100

\* .replace(/[^\w\s\u0600-\u06FF-]/g, '')
IsKept(c) == c \in WordChars \cup SpaceChars \cup ArabicChars \cup {"-"}

RemoveOthers(title) == SelectSeq(title, IsKept)

\* .replace(/\s+/g, '_')
RECURSIVE JoinSpaces(_)
JoinSpaces(chars) ==
  IF chars = << >> THEN << >>
  ELSE IF Head(chars) \in SpaceChars
    THEN IF Len(chars) > 1 /\ chars[2] \in SpaceChars
           THEN JoinSpaces(Tail(chars))
           ELSE <<"_">> \o JoinSpaces(Tail(chars))
    ELSE <<Head(chars)>> \o JoinSpaces(Tail(chars))

SanitizeFilename(title) ==
  LET joined == JoinSpaces(RemoveOthers(title))
  IN  SubSeq(joined, 1, Min(Len(joined), FilenameLimit))

\* path.join(this.tempDir, ...) and path.join(this.outputDir, ...)
VideoPath(title) == <<"temp", SanitizeFilename(title), ".mp4">>

AudioPath(title) == <<"temp", SanitizeFilename(title), "_speech.wav">>

WhisperOutputPath(title) == <<"temp", SanitizeFilename(title), "_speech.vtt">>

VttPath(title, lang) == <<"output", SanitizeFilename(title), lang>>

\* the files a stage of processVideoFast reads or writes
StagePaths(stage, title) ==
  CASE stage = "download" -> {VideoPath(title)}
    [] stage = "extract" -> {VideoPath(title), AudioPath(title)}
    [] stage = "transcribe" -> {AudioPath(title), WhisperOutputPath(title)}
    [] stage \in {"translate", "verify"} -> {VttPath(title, l) : l \in Languages}
    [] stage = "cleanup" -> {VideoPath(title), AudioPath(title)}
    [] OTHER -> {}

PairItems == {1, 2}

PairParked ==
  /\ pairTitles = << >>
  /\ pairK = 0
  /\ qPc = << >>
  /\ qAttempt = << >>

\* the catalog holds two videos (two videoIds) with their titles
PairInit ==
  /\ pairTitles \in [PairItems -> Titles]
  /\ pairK \in 1..MaxK
  /\ qPc = [i \in PairItems |-> "queued"]
  /\ qAttempt = [i \in PairItems |-> 0]

PairInFlight == {i \in PairItems : qPc[i] \notin {"queued", "resolved", "rejected"}}

\* the pool calls processVideoFast for the next video of the queue when a
\* lane is free
PairTake(i) ==
  /\ qPc[i] = "queued"
  /\ \A j \in PairItems : j < i => qPc[j] # "queued"
  /\ Cardinality(PairInFlight) < pairK
  /\ UNCHANGED nonPairVars
  /\ qPc' = [qPc EXCEPT ![i] = "clean"]
  /\ qAttempt' = [qAttempt EXCEPT ![i] = 1]
  /\ UNCHANGED <<pairTitles, pairK>>

\* a stage of the Item returns or throws
PairStage(i, ok) ==
  /\ qPc[i] \in {"clean", "download", "extract", "transcribe", "translate", "verify",
                 "cleanup"}
  /\ UNCHANGED nonPairVars
  /\ IF ok
       THEN /\ qPc' = [qPc EXCEPT ![i] = IF qPc[i] = "verify" THEN "cleanup"
                                         ELSE IF qPc[i] = "cleanup" THEN "resolved"
                                         ELSE StageAfter(qPc[i])]
            /\ UNCHANGED qAttempt
       ELSE IF qAttempt[i] = MaxProcessingRetries
         THEN /\ qPc' = [qPc EXCEPT ![i] = "rejected"]
              /\ UNCHANGED qAttempt
         ELSE /\ qPc' = [qPc EXCEPT ![i] = "clean"]
              /\ qAttempt' = [qAttempt EXCEPT ![i] = qAttempt[i] + 1]
  /\ UNCHANGED <<pairTitles, pairK>>

PairNext ==
  \/ \E i \in PairItems : PairTake(i)
  \/ \E i \in PairItems, ok \in BOOLEAN : PairStage(i, ok)

(* ------------------- the download stage across runs -------------------- *)
MaxRuns == 3

MaxDownloadVideos == 2

DownloadVideos == 1..MaxDownloadVideos

DownloadImpls == {"individual", "part_003"}

\* fs.existsSync(videoPath)
FileExists(file) == file # "absent"

ResumeParked ==
  /\ dImpl = "none"
  /\ dRun = 0
  /\ dPc = << >>
  /\ videoFile = << >>
  /\ dResult = << >>
  /\ takenAsCopy = << >>
  /\ redownloaded = {}

\* the first run: the temp directory was just created
ResumeInit ==
  /\ dImpl \in DownloadImpls
  /\ dRun = 1
  /\ dPc = [v \in DownloadVideos |-> "queued"]
  /\ videoFile = [v \in DownloadVideos |-> "absent"]
  /\ dResult = [v \in DownloadVideos |-> "none"]
  /\ takenAsCopy = [v \in DownloadVideos |-> "none"]
  /\ redownloaded = {}

\* downloadNext takes the video: 'Skip if already downloaded', else the
\* request; downloadVideo of src/unnamed/part_003 sends the request at once
BeginDownload(v) ==
  /\ dPc[v] = "queued"
  /\ UNCHANGED nonResumeVars
  /\ IF dImpl = "individual" /\ FileExists(videoFile[v])
       THEN /\ dPc' = [dPc EXCEPT ![v] = "done"]
            /\ dResult' = [dResult EXCEPT ![v] = "success"]
            /\ takenAsCopy' = [takenAsCopy EXCEPT ![v] = videoFile[v]]
            /\ UNCHANGED redownloaded
       ELSE /\ dPc' = [dPc EXCEPT ![v] = "requesting"]
            /\ redownloaded' = IF videoFile[v] = "complete" THEN redownloaded \cup {v}
                                                            ELSE redownloaded
            /\ UNCHANGED <<dResult, takenAsCopy>>
  /\ UNCHANGED <<dImpl, dRun, videoFile>>

\* the axios request settles: fs.createWriteStream(videoPath) creates or
\* truncates the file and the response is piped into it
ResponseArrives(v, ok) ==
  /\ dPc[v] = "requesting"
  /\ UNCHANGED nonResumeVars
  /\ IF ok
       THEN /\ dPc' = [dPc EXCEPT ![v] = "streaming"]
            /\ videoFile' = [videoFile EXCEPT ![v] = "partial"]
            /\ UNCHANGED dResult
       ELSE /\ dPc' = [dPc EXCEPT ![v] = "done"]
            /\ dResult' = [dResult EXCEPT ![v] = "failure"]
            /\ UNCHANGED videoFile
  /\ UNCHANGED <<dImpl, dRun, takenAsCopy, redownloaded>>

\* writer.on('finish', resolve) or writer.on('error', reject)
StreamEnds(v, ok) ==
  /\ dPc[v] = "streaming"
  /\ UNCHANGED nonResumeVars
  /\ dPc' = [dPc EXCEPT ![v] = "done"]
  /\ IF ok
       THEN /\ videoFile' = [videoFile EXCEPT ![v] = "complete"]
            /\ dResult' = [dResult EXCEPT ![v] = "success"]
       ELSE /\ dResult' = [dResult EXCEPT ![v] = "failure"]
            /\ UNCHANGED videoFile
  /\ UNCHANGED <<dImpl, dRun, takenAsCopy, redownloaded>>

\* the process is stopped while downloads are under way, or the run has
\* ended; the program is started again over the same temp directory
StartAgain ==
  /\ dRun < MaxRuns
  /\ \A v \in DownloadVideos : dPc[v] # "queued"
  /\ UNCHANGED nonResumeVars
  /\ dRun' = dRun + 1
  /\ dPc' = [v \in DownloadVideos |-> "queued"]
  /\ dResult' = [v \in DownloadVideos |-> "none"]
  /\ UNCHANGED <<dImpl, videoFile, takenAsCopy, redownloaded>>

ResumeNext ==
  \/ \E v \in DownloadVideos : BeginDownload(v)
  \/ \E v \in DownloadVideos, ok \in BOOLEAN : ResponseArrives(v, ok)
  \/ \E v \in DownloadVideos, ok \in BOOLEAN : StreamEnds(v, ok)
  \/ StartAgain

(* ----------------------- the transcription stage ----------------------- *)
MaxBatchItems == 2

BatchItems == 1 .. MaxBatchItems

TranscriptImpls == {"individual", "part_003"}

\* the file at vttPath: absent, with the 'WEBVTT' marker in it, or without
VttFiles == {"absent", "webvtt", "other"}

\* what the whisper command wrote to vttPath: nothing, or a file
Written == {"nothing", "webvtt", "other"}

\* fs.existsSync(vttPath)
VttExists(file) == file # "absent"

\* vttContent.includes('WEBVTT')
HasMarker(file) == file = "webvtt"

AfterWhisper(file, output) == IF output = "nothing" THEN file ELSE output

TranscriptParked ==
  /\ wImpl = "individual"
  /\ wPc = << >>
  /\ vttOnDisk = << >>
  /\ handedOn = << >>
  /\ wasOnDisk = << >>

\* A run finds at vttPath whatever an earlier run or attempt left there.
TranscriptInit ==
  /\ wImpl \in TranscriptImpls
  /\ wPc = [i \in BatchItems |-> "waiting"]
  /\ vttOnDisk \in [BatchItems -> VttFiles]
  /\ handedOn = [i \in BatchItems |-> "none"]
  /\ wasOnDisk = [i \in BatchItems |-> FALSE]

\* for (const item of batch): the items of a batch are taken one after another
IsCurrentItem(i) ==
  /\ wPc[i] = "waiting"
  /\ \A j \in BatchItems : j < i => wPc[j] \in {"handed", "failed"}

\* processBatchWithWhisper, 'Skip if VTT already exists': the file is read
\* and pushed with success: true.
TakeExistingVtt(i) ==
  /\ wImpl = "individual"
  /\ UNCHANGED nonTranscriptVars
  /\ IsCurrentItem(i)
  /\ VttExists(vttOnDisk[i])
  /\ handedOn' = [handedOn EXCEPT ![i] = vttOnDisk[i]]
  /\ wasOnDisk' = [wasOnDisk EXCEPT ![i] = TRUE]
  /\ wPc' = [wPc EXCEPT ![i] = "handed"]
  /\ UNCHANGED <<wImpl, vttOnDisk>>

\* processBatchWithWhisper up to the await of the ffmpeg extraction
BeginAudioExtraction(i) ==
  /\ wImpl = "individual"
  /\ UNCHANGED nonTranscriptVars
  /\ IsCurrentItem(i)
  /\ ~VttExists(vttOnDisk[i])
  /\ wPc' = [wPc EXCEPT ![i] = "extracting"]
  /\ UNCHANGED <<wImpl, vttOnDisk, handedOn, wasOnDisk>>

\* the extraction settles: the whisper command is started, or the catch
\* removes audioPath and vttPath and pushes success: false
AudioExtractionSettles(i, ok) ==
  /\ wImpl = "individual"
  /\ UNCHANGED nonTranscriptVars
  /\ wPc[i] = "extracting"
  /\ IF ok
       THEN /\ wPc' = [wPc EXCEPT ![i] = "whisper"]
            /\ UNCHANGED vttOnDisk
       ELSE /\ wPc' = [wPc EXCEPT ![i] = "failed"]
            /\ vttOnDisk' = [vttOnDisk EXCEPT ![i] = "absent"]
  /\ UNCHANGED <<wImpl, handedOn, wasOnDisk>>

\* the whisper command settles: 'Read and validate VTT', then the push, or
\* the catch with its cleanup
WhisperSettlesInBatch(i, ok, output) ==
  /\ wImpl = "individual"
  /\ UNCHANGED nonTranscriptVars
  /\ wPc[i] = "whisper"
  /\ LET file == AfterWhisper(vttOnDisk[i], output) IN
       IF ok /\ VttExists(file) /\ HasMarker(file)
         THEN /\ vttOnDisk' = [vttOnDisk EXCEPT ![i] = file]
              /\ handedOn' = [handedOn EXCEPT ![i] = file]
              /\ wPc' = [wPc EXCEPT ![i] = "handed"]
         ELSE /\ vttOnDisk' = [vttOnDisk EXCEPT ![i] = "absent"]
              /\ handedOn' = handedOn
              /\ wPc' = [wPc EXCEPT ![i] = "failed"]
  /\ UNCHANGED <<wImpl, wasOnDisk>>

\* transcribeWithWhisper of part_003 up to the await of execAsync(command)
BeginWhisper(i) ==
  /\ wImpl = "part_003"
  /\ UNCHANGED nonTranscriptVars
  /\ wPc[i] = "waiting"
  /\ wPc' = [wPc EXCEPT ![i] = "whisper"]
  /\ UNCHANGED <<wImpl, vttOnDisk, handedOn, wasOnDisk>>

\* execAsync settles: the content of vttPath is returned if the file exists,
\* otherwise (or when the command failed) the error is thrown
WhisperSettles(i, ok, output) ==
  /\ wImpl = "part_003"
  /\ UNCHANGED nonTranscriptVars
  /\ wPc[i] = "whisper"
  /\ LET file == AfterWhisper(vttOnDisk[i], output) IN
       /\ vttOnDisk' = [vttOnDisk EXCEPT ![i] = file]
       /\ IF ok /\ VttExists(file)
            THEN /\ handedOn' = [handedOn EXCEPT ![i] = file]
                 /\ wasOnDisk' = [wasOnDisk EXCEPT ![i] = (output = "nothing")]
                 /\ wPc' = [wPc EXCEPT ![i] = "handed"]
            ELSE /\ UNCHANGED <<handedOn, wasOnDisk>>
                 /\ wPc' = [wPc EXCEPT ![i] = "failed"]
  /\ UNCHANGED wImpl

TranscriptNext ==
  \/ \E i \in BatchItems : TakeExistingVtt(i)
  \/ \E i \in BatchItems : BeginAudioExtraction(i)
  \/ \E i \in BatchItems, ok \in BOOLEAN : AudioExtractionSettles(i, ok)
  \/ \E i \in BatchItems, ok \in BOOLEAN, output \in Written : WhisperSettlesInBatch(i, ok, output)
  \/ \E i \in BatchItems : BeginWhisper(i)
  \/ \E i \in BatchItems, ok \in BOOLEAN, output \in Written : WhisperSettles(i, ok, output)

(* --------------- start-up: the model the translator names -------------- *)
MaxModels == 2

MaxRequests == 2

NoModel == "null"

\* const modelPriority of selectBestModel
ModelPriority ==
  << "anthropic/claude-3-haiku", "openai/gpt-4o-mini", "google/gemini-flash-1.5",
     "meta-llama/llama-3.1-8b-instruct", "mistralai/mistral-7b-instruct",
     "deepseek/deepseek-r1-0528-qwen3-8b:free", "google/gemma-2b-it:free",
     "meta-llama/llama-3.2-1b-instruct:free" >>

DefaultModel == "deepseek/deepseek-r1-0528-qwen3-8b:free"

\* the ids the catalog of models may list: two of the paid ones, a free one
\* and one that is not in the priority list
ModelIds == {"anthropic/claude-3-haiku", "openai/gpt-4o-mini",
             "google/gemma-2b-it:free", "qwen/qwen-2.5-72b-instruct"}

ModelLists ==
  UNION {{s \in [1 .. n -> ModelIds] : \A i, j \in 1 .. n : s[i] = s[j] => i = j} :
         n \in 0 .. MaxModels}

ListsModel(models, id) == \E i \in 1 .. Len(models) : models[i] = id

FirstPreferred(models) ==
  CHOOSE p \in 1 .. Len(ModelPriority) :
    /\ ListsModel(models, ModelPriority[p])
    /\ \A q \in 1 .. (p - 1) : ~ListsModel(models, ModelPriority[q])

\* selectBestModel(models); "throws" stands for Error('No models available')
SelectBestModel(models) ==
  IF \E p \in 1 .. Len(ModelPriority) : ListsModel(models, ModelPriority[p])
    THEN ModelPriority[FirstPreferred(models)]
    ELSE IF Len(models) > 0 THEN models[1] ELSE "throws"

\* const modelToUse = this.selectedModel || this.model || '<default>'
ModelToUse(selected, configured) ==
  IF selected # NoModel THEN selected
  ELSE IF configured # NoModel THEN configured
  ELSE DefaultModel

ModelParked ==
  /\ mPc = "parked"
  /\ apiKey = FALSE
  /\ forcedModel = NoModel
  /\ llmModel = NoModel
  /\ selectedModel = NoModel
  /\ modelsList = << >>
  /\ requestModel = NoModel
  /\ requestCount = 0

\* After the constructors: new LLMTranslator(), then the override of
\* selectedModel when FORCE_PAID_MODEL is set.
ModelInit ==
  /\ mPc = "constructed"
  /\ apiKey \in BOOLEAN
  /\ forcedModel \in {NoModel} \cup ModelIds
  /\ llmModel \in {NoModel, "openai/gpt-4o-mini"}
  /\ selectedModel = forcedModel
  /\ modelsList = << >>
  /\ requestModel = NoModel
  /\ requestCount = 0

\* initialize() of the processor calls translator.initialize(): without an
\* API key it returns false and the processor throws; otherwise it awaits
\* checkCredits(), which catches its own errors.
InitializeTranslator ==
  /\ mPc = "constructed"
  /\ UNCHANGED nonModelVars
  /\ mPc' = IF apiKey THEN "credits" ELSE "exited"
  /\ UNCHANGED <<apiKey, forcedModel, llmModel, selectedModel, modelsList, requestModel,
                 requestCount>>

\* checkCredits settles and fetchAvailableModels sends its request
CreditsSettle ==
  /\ mPc = "credits"
  /\ UNCHANGED nonModelVars
  /\ mPc' = "fetching"
  /\ UNCHANGED <<apiKey, forcedModel, llmModel, selectedModel, modelsList, requestModel,
                 requestCount>>

\* fetchAvailableModels settles (a failed request leaves modelsList as it
\* was), then this.selectedModel = await this.selectBestModel(this.modelsList)
\* and the connection test starts, or the error of selectBestModel ends the run
ModelsFetched(ok, listed) ==
  /\ mPc = "fetching"
  /\ UNCHANGED nonModelVars
  /\ modelsList' = IF ok THEN listed ELSE modelsList
  /\ LET best == SelectBestModel(modelsList') IN
       IF best = "throws"
         THEN /\ mPc' = "exited"
              /\ UNCHANGED selectedModel
         ELSE /\ mPc' = "testing"
              /\ selectedModel' = best
  /\ UNCHANGED <<apiKey, forcedModel, llmModel, requestModel, requestCount>>

\* testConnection settles: the processor throws when it returned false
ConnectionTested(ok) ==
  /\ mPc = "testing"
  /\ UNCHANGED nonModelVars
  /\ mPc' = IF ok THEN "ready" ELSE "exited"
  /\ UNCHANGED <<apiKey, forcedModel, llmModel, selectedModel, modelsList, requestModel,
                 requestCount>>

\* translateWithOpenRouter: axios.post(this.apiUrl, { model: modelToUse, ... })
TranslationRequest ==
  /\ mPc = "ready"
  /\ UNCHANGED nonModelVars
  /\ requestCount < MaxRequests
  /\ requestModel' = ModelToUse(selectedModel, llmModel)
  /\ requestCount' = requestCount + 1
  /\ UNCHANGED <<mPc, apiKey, forcedModel, llmModel, selectedModel, modelsList>>

ModelNext ==
  \/ InitializeTranslator
  \/ CreditsSettle
  \/ \E ok \in BOOLEAN, listed \in ModelLists : ModelsFetched(ok, listed)
  \/ \E ok \in BOOLEAN : ConnectionTested(ok)
  \/ TranslationRequest

(* ------------ processVideoFast and the captions of the video ----------- *)
\* the captions the catalog may hold for the video when the call starts
PublishedBefore == {{}, {"en", "fr"}, Languages}

CatalogOriginals == {"en"}

\* languages.every(lang => the file <filename>_<lang>.vtt exists)
AllLocalFiles(local) == Languages \subseteq local

\* the captions verifyVideoProcessing of src/fast-processor.js reports missing
MissingCaptions(listed) == Languages \ listed

\* the language the for loop of src/fast-processor.js takes next; in
\* src/unnamed/part_003 the translations run together and settle in any order
MaySettleNext(impl, orig, pending, l) ==
  /\ l \in pending
  /\ impl = "fast-processor" =>
       \A k \in pending :
          \E i, j \in 1 .. Len(TargetLanguages(orig)) :
             /\ TargetLanguages(orig)[i] = l
             /\ TargetLanguages(orig)[j] = k
             /\ i <= j

CatalogParked ==
  /\ cImpl = "part_003"
  /\ cUpload = FALSE
  /\ cSkipExisting = FALSE
  /\ cPc = "parked"
  /\ cAttempt = 0
  /\ cOriginal = "none"
  /\ localVtts = {}
  /\ published = {}
  /\ publishedAtStart = {}
  /\ pendingTargets = {}
  /\ deleteSent = FALSE
  /\ uploadedLangs = {}
  /\ allSucceeded = FALSE
  /\ stagesRun = FALSE

\* let attempt = 1, for an Item none of whose files has been written yet
CatalogInit ==
  /\ cImpl \in Impls
  /\ cUpload \in BOOLEAN
  /\ cSkipExisting \in BOOLEAN
  /\ cPc = "head"
  /\ cAttempt = 1
  /\ cOriginal \in CatalogOriginals
  /\ localVtts = {}
  /\ publishedAtStart \in PublishedBefore
  /\ published = publishedAtStart
  /\ pendingTargets = {}
  /\ deleteSent = FALSE
  /\ uploadedLangs = {}
  /\ allSucceeded = TRUE
  /\ stagesRun = FALSE

\* the catch of the while loop: throw after the last attempt, else wait and attempt++
CatalogAttemptFails ==
  IF cAttempt = ProcessingRetries(cImpl)
    THEN /\ cPc' = "failed"
         /\ cAttempt' = cAttempt
    ELSE /\ cPc' = "backoff"
         /\ cAttempt' = cAttempt

\* the top of the try: the skip test, which awaits verifyVideoProcessing
\* when the files are there, else the call of deleteAllCaptionsForVideo
AttemptHead ==
  /\ cPc = "head"
  /\ UNCHANGED nonCatalogVars
  /\ cPc' = IF cSkipExisting /\ AllLocalFiles(localVtts) THEN "skipVerify" ELSE "clean"
  /\ UNCHANGED <<cImpl, cUpload, cSkipExisting, cAttempt, cOriginal, localVtts, published,
                 publishedAtStart, pendingTargets, deleteSent, uploadedLangs, allSucceeded,
                 stagesRun>>

\* verifyVideoProcessing of the skip test settles: return, or reprocess.
\* listed is what the caption listing showed (the request may fail).
SkipVerifySettles(listingOk) ==
  /\ cPc = "skipVerify"
  /\ UNCHANGED nonCatalogVars
  /\ (cImpl = "part_003" \/ ~cUpload) => listingOk
  /\ LET complete ==
           /\ AllLocalFiles(localVtts)
           /\ (cImpl = "fast-processor" /\ cUpload)
                => (listingOk /\ MissingCaptions(published) = {})
     IN cPc' = IF complete THEN "succeeded" ELSE "clean"
  /\ allSucceeded' = (allSucceeded /\ listingOk)
  /\ UNCHANGED <<cImpl, cUpload, cSkipExisting, cAttempt, cOriginal, localVtts, published,
                 publishedAtStart, pendingTargets, deleteSent, uploadedLangs, stagesRun>>

\* deleteAllCaptionsForVideo: a DELETE for each of the five languages,
\* whatever UPLOAD_CAPTIONS says; kept are the captions whose DELETE failed
\* after its retries (the error is logged and the loop goes on), at most one
\* of them here
DeleteAllCaptionsForVideo(kept) ==
  /\ cPc = "clean"
  /\ UNCHANGED nonCatalogVars
  /\ kept \subseteq published
  /\ Cardinality(kept) <= 1
  /\ published' = kept
  /\ deleteSent' = TRUE
  /\ allSucceeded' = (allSucceeded /\ kept = {})
  /\ cPc' = "stages"
  /\ UNCHANGED <<cImpl, cUpload, cSkipExisting, cAttempt, cOriginal, localVtts,
                 publishedAtStart, pendingTargets, uploadedLangs, stagesRun>>

\* downloadVideo, extractSpeechOnlyAudio, transcribeWithWhisper and the write
\* of the original VTT: all return, or one of them throws
StagesSettle(ok) ==
  /\ cPc = "stages"
  /\ UNCHANGED nonCatalogVars
  /\ IF ok
       THEN /\ localVtts' = localVtts \cup {cOriginal}
            /\ pendingTargets' = Languages \ {cOriginal}
            /\ cPc' = "translating"
            /\ cAttempt' = cAttempt
            /\ stagesRun' = TRUE
       ELSE /\ CatalogAttemptFails
            /\ UNCHANGED <<localVtts, pendingTargets, stagesRun>>
  /\ allSucceeded' = (allSucceeded /\ ok)
  /\ UNCHANGED <<cImpl, cUpload, cSkipExisting, cOriginal, published, publishedAtStart,
                 deleteSent, uploadedLangs>>

\* one target language settles: translateVTTFast and the write of its file,
\* then, with UPLOAD_CAPTIONS, uploadCaptionToApiVideo, which returns false
\* when its POST fails for good (the return value is not read)
TargetSettles(l, translated, posted) ==
  /\ cPc = "translating"
  /\ UNCHANGED nonCatalogVars
  /\ MaySettleNext(cImpl, cOriginal, pendingTargets, l)
  /\ (~translated \/ ~cUpload) => posted
  /\ pendingTargets' = pendingTargets \ {l}
  /\ localVtts' = IF translated THEN localVtts \cup {l} ELSE localVtts
  /\ published' = IF translated /\ cUpload /\ posted THEN published \cup {l} ELSE published
  /\ uploadedLangs' = IF translated /\ cUpload /\ posted
                        THEN uploadedLangs \cup {l} ELSE uploadedLangs
  /\ allSucceeded' = (allSucceeded /\ translated /\ posted)
  /\ cPc' = IF pendingTargets' = {} THEN "verify" ELSE "translating"
  /\ UNCHANGED <<cImpl, cUpload, cSkipExisting, cAttempt, cOriginal, publishedAtStart,
                 deleteSent, stagesRun>>

\* verifyVideoProcessing after the translations: the local files, then in
\* src/fast-processor.js with UPLOAD_CAPTIONS the caption listing; in
\* src/unnamed/part_003 the remote check only logs
VerifySettles(listingOk) ==
  /\ cPc = "verify"
  /\ UNCHANGED nonCatalogVars
  /\ (cImpl = "part_003" \/ ~cUpload) => listingOk
  /\ LET complete ==
           /\ AllLocalFiles(localVtts)
           /\ (cImpl = "fast-processor" /\ cUpload)
                => (listingOk /\ MissingCaptions(published) = {})
     IN IF complete
          THEN /\ cPc' = "succeeded"
               /\ cAttempt' = cAttempt
          ELSE CatalogAttemptFails
  /\ allSucceeded' = (allSucceeded /\ listingOk)
  /\ UNCHANGED <<cImpl, cUpload, cSkipExisting, cOriginal, localVtts, published,
                 publishedAtStart, pendingTargets, deleteSent, uploadedLangs, stagesRun>>

\* the wait of the catch is over: attempt++ and the loop test
CatalogNextAttempt ==
  /\ cPc = "backoff"
  /\ UNCHANGED nonCatalogVars
  /\ cAttempt' = cAttempt + 1
  /\ cPc' = "head"
  /\ UNCHANGED <<cImpl, cUpload, cSkipExisting, cOriginal, localVtts, published,
                 publishedAtStart, pendingTargets, deleteSent, uploadedLangs, allSucceeded,
                 stagesRun>>

CatalogNext ==
  \/ AttemptHead
  \/ \E listingOk \in BOOLEAN : SkipVerifySettles(listingOk)
  \/ \E kept \in SUBSET Languages : DeleteAllCaptionsForVideo(kept)
  \/ \E ok \in BOOLEAN : StagesSettle(ok)
  \/ \E l \in Languages, translated \in BOOLEAN, posted \in BOOLEAN :
        TargetSettles(l, translated, posted)
  \/ \E listingOk \in BOOLEAN : VerifySettles(listingOk)
  \/ CatalogNextAttempt

(* ------------- processVideo of src/index.js and its captions ----------- *)
\* waitForCaptionDeletion(videoId, maxWaitTime = 30000)
MaxWaitTime == 30000

\* const checkInterval = 2000
CheckInterval == 2000

\* how long a caption listing takes (ms)
ListingDurations == {0, 2000}

RemoteBefore == {{}, {"en"}, {"en", "fr"}}

CaptionOriginal == "en"

\* checkExistingCaptions: the languages listed; [] on a 404 and on any
\* other error of the request
CheckExistingCaptions(ok, listed) == IF ok THEN listed ELSE {}

\* while (Date.now() - startTime < maxWaitTime)
KeepsWaiting(elapsed) == elapsed < MaxWaitTime

\* the target language after l in languages.filter(lang => lang !== originalLangCode)
TargetAfter(l) ==
  LET targets == TargetLanguages(CaptionOriginal) IN
    IF l = CaptionOriginal THEN targets[1]
    ELSE LET i == CHOOSE k \in 1 .. Len(targets) : targets[k] = l
         IN  IF i < Len(targets) THEN targets[i + 1] ELSE "none"

CaptionParked ==
  /\ kPc = "parked"
  /\ kUpload = FALSE
  /\ kReplace = FALSE
  /\ kRemote = {}
  /\ kLingering = {}
  /\ existingCaptions = {}
  /\ kElapsed = 0
  /\ waitResult = "none"
  /\ confirmedEmpty = FALSE
  /\ listingsAfterTimeout = FALSE
  /\ kLang = "none"
  /\ kLocal = {}
  /\ uploadRequests = {}

CaptionInit ==
  /\ kPc = "start"
  /\ kUpload \in BOOLEAN
  /\ kReplace \in BOOLEAN
  /\ kRemote \in RemoteBefore
  /\ kLingering = {}
  /\ existingCaptions = {}
  /\ kElapsed = 0
  /\ waitResult = "none"
  /\ confirmedEmpty = FALSE
  /\ listingsAfterTimeout = FALSE
  /\ kLang = "none"
  /\ kLocal = {}
  /\ uploadRequests = {}

\* processVideo up to its first await: the listing of checkExistingCaptions
\* when UPLOAD_CAPTIONS is 'true', else downloadVideo
BeginProcessVideo ==
  /\ kPc = "start"
  /\ UNCHANGED nonCaptionVars
  /\ kPc' = IF kUpload THEN "listing" ELSE "stages"
  /\ UNCHANGED <<kUpload, kReplace, kRemote, kLingering, existingCaptions, kElapsed,
                 waitResult, confirmedEmpty, listingsAfterTimeout, kLang, kLocal,
                 uploadRequests>>

\* the first listing settles: with captions and REPLACE_EXISTING_CAPTIONS the
\* DELETE requests of deleteAllExistingCaptions are sent; in every other case
\* a message is logged at most and processVideo goes on to downloadVideo
FirstListingSettles(ok) ==
  /\ kPc = "listing"
  /\ UNCHANGED nonCaptionVars
  /\ existingCaptions' = CheckExistingCaptions(ok, kRemote)
  /\ kPc' = IF existingCaptions' # {} /\ kReplace THEN "deleting" ELSE "stages"
  /\ UNCHANGED <<kUpload, kReplace, kRemote, kLingering, kElapsed, waitResult,
                 confirmedEmpty, listingsAfterTimeout, kLang, kLocal, uploadRequests>>

\* Promise.all over deleteCaption settles: failed are the languages whose
\* DELETE failed (at most one here); gone says whether the catalog has dropped
\* the deleted captions from its listing already. With every deletion done
\* the 2 s wait starts; otherwise deletionSuccess is false, a message is
\* logged and processVideo goes on to downloadVideo.
DeletionsSettle(failed, gone) ==
  /\ kPc = "deleting"
  /\ UNCHANGED nonCaptionVars
  /\ failed \subseteq existingCaptions
  /\ Cardinality(failed) <= 1
  /\ LET deleted == existingCaptions \ failed IN
       /\ kRemote' = IF gone THEN kRemote \ deleted ELSE kRemote
       /\ kLingering' = IF gone THEN {} ELSE deleted
  /\ kPc' = IF failed = {} THEN "propagating" ELSE "stages"
  /\ UNCHANGED <<kUpload, kReplace, existingCaptions, kElapsed, waitResult, confirmedEmpty,
                 listingsAfterTimeout, kLang, kLocal, uploadRequests>>

\* the catalog stops listing the captions that were deleted
CatalogPropagates ==
  /\ kPc # "parked"
  /\ UNCHANGED nonCaptionVars
  /\ kLingering # {}
  /\ kRemote' = kRemote \ kLingering
  /\ kLingering' = {}
  /\ UNCHANGED <<kPc, kUpload, kReplace, existingCaptions, kElapsed, waitResult,
                 confirmedEmpty, listingsAfterTimeout, kLang, kLocal, uploadRequests>>

\* deleteAllExistingCaptions returns true after its 2 s wait and
\* waitForCaptionDeletion starts: startTime, the loop test, the first listing
WaitForCaptionDeletion ==
  /\ kPc = "propagating"
  /\ UNCHANGED nonCaptionVars
  /\ kElapsed' = 0
  /\ kPc' = "waitListing"
  /\ UNCHANGED <<kUpload, kReplace, kRemote, kLingering, existingCaptions, waitResult,
                 confirmedEmpty, listingsAfterTimeout, kLang, kLocal, uploadRequests>>

\* a listing of waitForCaptionDeletion settles: return true when it is
\* empty, else the wait of checkInterval. The return value is not read by
\* processVideo, which goes on to downloadVideo.
WaitListingSettles(ok, duration) ==
  /\ kPc = "waitListing"
  /\ UNCHANGED nonCaptionVars
  /\ kElapsed' = kElapsed + duration
  /\ IF CheckExistingCaptions(ok, kRemote) = {}
       THEN /\ waitResult' = "true"
            /\ confirmedEmpty' = (ok /\ kRemote = {})
            /\ kPc' = "stages"
       ELSE /\ UNCHANGED <<waitResult, confirmedEmpty>>
            /\ kPc' = "waitInterval"
  /\ UNCHANGED <<kUpload, kReplace, kRemote, kLingering, existingCaptions,
                 listingsAfterTimeout, kLang, kLocal, uploadRequests>>

\* the wait of checkInterval is over: the loop test, then the next listing
\* or return false
WaitIntervalElapses ==
  /\ kPc = "waitInterval"
  /\ UNCHANGED nonCaptionVars
  /\ kElapsed' = kElapsed + CheckInterval
  /\ IF KeepsWaiting(kElapsed')
       THEN /\ kPc' = "waitListing"
            /\ listingsAfterTimeout' = (listingsAfterTimeout \/ ~KeepsWaiting(kElapsed'))
            /\ UNCHANGED waitResult
       ELSE /\ kPc' = "stages"
            /\ waitResult' = "false"
            /\ UNCHANGED listingsAfterTimeout
  /\ UNCHANGED <<kUpload, kReplace, kRemote, kLingering, existingCaptions, confirmedEmpty,
                 kLang, kLocal, uploadRequests>>

\* uploadCaptionToApiVideo(videoId, language, ...): return false without a
\* request unless UPLOAD_CAPTIONS is 'true', else the POST is sent
SendsUpload(upload) == upload

\* downloadVideo, extractSpeechOnlyAudio, transcribeWithWhisper and the write
\* of the original VTT, then uploadCaptionToApiVideo for the original
CaptionStagesSettle(ok) ==
  /\ kPc = "stages"
  /\ UNCHANGED nonCaptionVars
  /\ IF ok
       THEN /\ kLocal' = kLocal \cup {CaptionOriginal}
            /\ kLang' = CaptionOriginal
            /\ IF SendsUpload(kUpload)
                 THEN /\ uploadRequests' = uploadRequests \cup {CaptionOriginal}
                      /\ kPc' = "posting"
                 ELSE /\ UNCHANGED uploadRequests
                      /\ kPc' = "translating"
       ELSE /\ kPc' = "failed"
            /\ UNCHANGED <<kLocal, kLang, uploadRequests>>
  /\ UNCHANGED <<kUpload, kReplace, kRemote, kLingering, existingCaptions, kElapsed,
                 waitResult, confirmedEmpty, listingsAfterTimeout>>

\* the POST settles (a failure is caught and answered with false): the loop
\* goes on to the translation of the next target language, or ends
CaptionPostSettles(ok) ==
  /\ kPc = "posting"
  /\ UNCHANGED nonCaptionVars
  /\ kRemote' = IF ok THEN kRemote \cup {kLang} ELSE kRemote
  /\ kPc' = IF TargetAfter(kLang) = "none" THEN "done" ELSE "translating"
  /\ UNCHANGED <<kUpload, kReplace, kLingering, existingCaptions, kElapsed, waitResult,
                 confirmedEmpty, listingsAfterTimeout, kLang, kLocal, uploadRequests>>

\* translateVTT for the next target language settles: the file is written
\* and uploadCaptionToApiVideo is called, or the error ends processVideo
TargetTranslated(ok) ==
  /\ kPc = "translating"
  /\ UNCHANGED nonCaptionVars
  /\ LET l == TargetAfter(kLang) IN
       IF ok
         THEN /\ kLocal' = kLocal \cup {l}
              /\ kLang' = l
              /\ IF SendsUpload(kUpload)
                   THEN /\ uploadRequests' = uploadRequests \cup {l}
                        /\ kPc' = "posting"
                   ELSE /\ UNCHANGED uploadRequests
                        /\ kPc' = IF TargetAfter(l) = "none" THEN "done" ELSE "translating"
         ELSE /\ kPc' = "failed"
              /\ UNCHANGED <<kLocal, kLang, uploadRequests>>
  /\ UNCHANGED <<kUpload, kReplace, kRemote, kLingering, existingCaptions, kElapsed,
                 waitResult, confirmedEmpty, listingsAfterTimeout>>

CaptionNext ==
  \/ BeginProcessVideo
  \/ \E ok \in BOOLEAN : FirstListingSettles(ok)
  \/ \E failed \in SUBSET Languages, gone \in BOOLEAN : DeletionsSettle(failed, gone)
  \/ CatalogPropagates
  \/ WaitForCaptionDeletion
  \/ \E ok \in BOOLEAN, duration \in ListingDurations : WaitListingSettles(ok, duration)
  \/ WaitIntervalElapses
  \/ \E ok \in BOOLEAN : CaptionStagesSettle(ok)
  \/ \E ok \in BOOLEAN : CaptionPostSettles(ok)
  \/ \E ok \in BOOLEAN : TargetTranslated(ok)

(* ------------ translateVTTIndividually and retryTranslation ------------ *)
MaxLines == 2

\* const languages = ['ar', 'fr', 'es', 'it'] of translateIndividually
IndividualLanguages == <<"ar", "fr", "es", "it">>

\* retryTranslation(operation, `subtitle ${subtitleCount}`, 3)
TranslationRetries == 3

\* what the translation service does with a request: it answers with a
\* translation, with the source text unchanged, with a text that carries the
\* [XX] tag of a placeholder, or the request fails
ServiceOutcomes == {"translation", "source", "tagged", "fails"}

\* translateText(text, targetLanguage, sourceLanguage) of LLMTranslator: the
\* text of the answer, and 'return text' from its catch when the request
\* failed; threw says whether the promise is rejected
TranslateText(outcome) ==
  IF outcome = "fails" THEN [threw |-> FALSE, text |-> "source"]
  ELSE [threw |-> FALSE, text |-> outcome]

\* const waitTime = attempt * 2000
RetryWaitTime(a) == a * 2000

\* translatedText === line || translatedText.includes(`[${targetLanguage.toUpperCase()}]`)
IsInvalidTranslation(text) == text \in {"source", "tagged"}

NotTranslated == [success |-> FALSE, tried |-> FALSE, calls |-> 0, waits |-> << >>,
                  serviceFailed |-> FALSE]

LineParked ==
  /\ lPc = "parked"
  /\ lineCount = 0
  /\ lLang = 0
  /\ lLine = 0
  /\ lAttempt = 0
  /\ serviceCalls = 0
  /\ retryWaits = << >>
  /\ langResults = << >>

LineInit ==
  /\ lPc = "language"
  /\ lineCount \in 1 .. MaxLines
  /\ lLang = 0
  /\ lLine = 0
  /\ lAttempt = 0
  /\ serviceCalls = 0
  /\ retryWaits = << >>
  /\ langResults = [i \in 1 .. Len(IndividualLanguages) |-> NotTranslated]

\* the call of the operation for a line: attempt 1 of retryTranslation
CallForLine(n) ==
  /\ lLine' = n
  /\ lAttempt' = 1
  /\ serviceCalls' = 1
  /\ retryWaits' = << >>

\* for (const lang of languages): translateVTTIndividually(vttContent, lang)
\* up to the request of its first subtitle line, or the end of the loop
NextLanguage ==
  /\ lPc = "language"
  /\ UNCHANGED nonLineVars
  /\ IF lLang < Len(IndividualLanguages)
       THEN /\ lLang' = lLang + 1
            /\ lPc' = "calling"
            /\ CallForLine(1)
       ELSE /\ lPc' = "finished"
            /\ UNCHANGED <<lLang, lLine, lAttempt, serviceCalls, retryWaits>>
  /\ UNCHANGED <<lineCount, langResults>>

\* what the for loop over the languages records when translateVTTIndividually
\* has thrown or returned, with the invocations and waits of the last line
\* and whether its last request had failed
Recorded(ok, calls, waits, failed) ==
  [success |-> ok, tried |-> TRUE, calls |-> calls, waits |-> waits,
   serviceFailed |-> failed]

\* the request of the current line settles and translateText returns or
\* throws; in retryTranslation a throw is followed by the wait and the next
\* attempt while attempt < maxRetries, else by throw lastError; a returned
\* text is validated by translateVTTIndividually, which throws or goes on to
\* the next line; the error of a line ends the language (success: false)
LineRequestSettles(outcome) ==
  /\ lPc = "calling"
  /\ UNCHANGED nonLineVars
  /\ LET answer == TranslateText(outcome)
         failedNow == outcome = "fails"
     IN
       /\ IF answer.threw /\ lAttempt < TranslationRetries
            THEN /\ lAttempt' = lAttempt + 1
                 /\ serviceCalls' = serviceCalls + 1
                 /\ retryWaits' = Append(retryWaits, RetryWaitTime(lAttempt))
                 /\ UNCHANGED <<lPc, lLine, langResults>>
            ELSE IF answer.threw \/ IsInvalidTranslation(answer.text)
              THEN /\ langResults' = [langResults EXCEPT ![lLang] =
                                         Recorded(FALSE, serviceCalls, retryWaits, failedNow)]
                   /\ lPc' = "language"
                   /\ UNCHANGED <<lLine, lAttempt, serviceCalls, retryWaits>>
              ELSE IF lLine < lineCount
                THEN /\ lLine' = lLine + 1
                     /\ lAttempt' = 1
                     /\ serviceCalls' = 1
                     /\ retryWaits' = << >>
                     /\ UNCHANGED <<lPc, langResults>>
                ELSE /\ langResults' = [langResults EXCEPT ![lLang] =
                                           Recorded(TRUE, serviceCalls, retryWaits, failedNow)]
                     /\ lPc' = "language"
                     /\ UNCHANGED <<lLine, lAttempt, serviceCalls, retryWaits>>
  /\ UNCHANGED <<lineCount, lLang>>

LineNext ==
  \/ NextLanguage
  \/ \E outcome \in ServiceOutcomes : LineRequestSettles(outcome)

(* --------------------------- worker pool ------------------------------- *)
PoolParked ==
  /\ videoCount = 0
  /\ maxConcurrentVideos = 1
  /\ poolPc = "parked"
  /\ started = 0
  /\ completed = 0
  /\ results = << >>
  /\ errors = << >>
  /\ semaphore = << >>
  /\ videoState = << >>
  /\ promiseState = << >>
  /\ awaited = {}
  /\ returnedCount = Null

VideoIndices == 0 .. (MaxVideos - 1)

Lanes == 0 .. (Max(MaxK, MaxVideos) - 1)

\* error.message of a rejected processVideoFast
ErrorReasons == {"Video processing verification failed", "download failed"}

Outcomes == {"ok"} \cup ErrorReasons

LaneOf(v) == CHOOSE l \in Lanes : semaphore[l] = v

\* for (let i = 0; i < Math.min(this.maxConcurrentVideos, videos.length); i++)
BatchAll(k, len) == len

InitialBatchSize(k, len) == Min(k, len)

\* if (started < videos.length) semaphore[index] = processNext(index)
StartNextNever(st, len) == FALSE

ShouldStartNext(st, len) == st < len

\* const videoIndex = started++; const video = videos[videoIndex];
\* (index is the lane the call was made for)
TakenIndexOfLane(st, index) == index

TakenIndex(st, index) == st

PoolInit ==
  /\ videoCount \in 0 .. MaxVideos
  /\ maxConcurrentVideos \in 1 .. MaxK
  /\ poolPc = "start"
  /\ started = 0
  /\ completed = 0
  /\ results = << >>
  /\ errors = << >>
  /\ semaphore = [l \in Lanes |-> Null]
  /\ videoState = [v \in VideoIndices |-> "queued"]
  /\ promiseState = [v \in VideoIndices |-> "none"]
  /\ awaited = {}
  /\ returnedCount = Null

\* The synchronous start of processVideosConcurrently: the initial batch of
\* processNext(i) calls, each running up to its await of processVideoFast,
\* then Promise.all over the promises now in the slots.
StartInitialBatch ==
  /\ poolPc = "start"
  /\ UNCHANGED nonPoolVars
  /\ LET b == InitialBatchSize(maxConcurrentVideos, videoCount) IN
       /\ started' = b
       /\ semaphore' = [l \in Lanes |-> IF l < b THEN l ELSE Null]
       /\ videoState' = [v \in VideoIndices |-> IF v < b THEN "running" ELSE "queued"]
       /\ promiseState' = [v \in VideoIndices |-> IF v < b THEN "pending" ELSE "none"]
       /\ awaited' = {v \in VideoIndices : v < b}
  /\ poolPc' = "awaiting"
  /\ UNCHANGED <<videoCount, maxConcurrentVideos, completed, results, errors, returnedCount>>

\* processNext after its await of processVideoFast(video) settles: the try
\* tail or the catch, then finally; refill says whether finally calls
\* processNext(index) again, which takes the next video synchronously.
SettleLane(v, outcome, refill) ==
  /\ videoState[v] = "running"
  /\ UNCHANGED nonPoolVars
  /\ LET l == LaneOf(v) IN
       /\ results' = IF outcome = "ok" THEN Append(results, v) ELSE results
       /\ errors' = IF outcome = "ok" THEN errors
                    ELSE Append(errors, [video |-> v, error |-> outcome])
       /\ completed' = completed + 1
       /\ IF refill
            THEN /\ started' = started + 1
                 /\ semaphore' = [semaphore EXCEPT ![l] = TakenIndex(started, l)]
                 /\ videoState' = [videoState EXCEPT ![v] = "done",
                                                     ![TakenIndex(started, l)] = "running"]
                 /\ promiseState' = [promiseState EXCEPT ![v] = "fulfilled",
                                                         ![TakenIndex(started, l)] = "pending"]
            ELSE /\ started' = started
                 /\ semaphore' = [semaphore EXCEPT ![l] = Null]
                 /\ videoState' = [videoState EXCEPT ![v] = "done"]
                 /\ promiseState' = [promiseState EXCEPT ![v] = "fulfilled"]
  /\ UNCHANGED <<videoCount, maxConcurrentVideos, poolPc, awaited, returnedCount>>

ProcessNextHalting(v, outcome) ==
  SettleLane(v, outcome, outcome = "ok" /\ ShouldStartNext(started, videoCount))

ProcessNext(v, outcome) ==
  SettleLane(v, outcome, ShouldStartNext(started, videoCount))

\* await Promise.all(semaphore.filter(p => p !== null)) resumes, and the
\* function returns { results, errors }.
PoolReturn ==
  /\ poolPc = "awaiting"
  /\ UNCHANGED nonPoolVars
  /\ \A p \in awaited : promiseState[p] = "fulfilled"
  /\ poolPc' = "returned"
  /\ returnedCount' = Len(results) + Len(errors)
  /\ UNCHANGED <<videoCount, maxConcurrentVideos, started, completed, results, errors,
                 semaphore, videoState, promiseState, awaited>>

PoolNext ==
  \/ StartInitialBatch
  \/ \E v \in VideoIndices, o \in Outcomes : ProcessNext(v, o)
  \/ PoolReturn

Init == PoolInit /\ RetryParked /\ ItemParked /\ StageParked /\ PublishParked
        /\ PairParked /\ ResumeParked
  /\ TranscriptParked
  /\ ModelParked
  /\ CatalogParked
  /\ CaptionParked
  /\ LineParked

Next == PoolNext

Spec == Init /\ [][Next]_vars

\* Every processVideoFast call settles and the event loop runs every ready
\* continuation.
FairSpec ==
  /\ Spec
  /\ WF_vars(StartInitialBatch)
  /\ \A v \in VideoIndices : WF_vars(\E o \in Outcomes : ProcessNext(v, o))
  /\ WF_vars(PoolReturn)

InFlight == {v \in VideoIndices : videoState[v] = "running"}

\* C1: at every instant the number of items whose processVideoFast has
\* started and not finished is at most maxConcurrentVideos.
C1_InFlightAtMostK ==
  /\ Cardinality(InFlight) <= maxConcurrentVideos
  /\ started - completed <= maxConcurrentVideos

C1_Witness ==
  /\ videoCount > maxConcurrentVideos
  /\ Cardinality(InFlight) = maxConcurrentVideos
  /\ completed > 0

\* C2: the aggregate is returned only after every item of the queue has
\* finished, and it lists each queue item exactly once.
C2_ReturnsAfterAllFinished ==
  poolPc = "returned" => /\ completed = videoCount
                         /\ returnedCount = videoCount

\* C3: a failure is recorded for the failed item only, and after a failure
\* every remaining queue item is still started and finished.
C3_FailureDoesNotHalt ==
  /\ [](\A i \in 1 .. Len(errors) :
          /\ videoState[errors[i].video] = "done"
          /\ \A j \in 1 .. Len(errors) : errors[j].video = errors[i].video => j = i
          /\ \A j \in 1 .. Len(results) : results[j] # errors[i].video)
  /\ (Len(errors) > 0) ~> (started = videoCount /\ completed = videoCount)

C3_Witness ==
  /\ Len(errors) > 0
  /\ errors[1].video < videoCount - maxConcurrentVideos
  /\ completed = videoCount

(* ------------------- the retry/backoff controller ---------------------- *)
RetryStart == RetryInit /\ PoolParked /\ ItemParked /\ StageParked /\ PublishParked
  /\ PairParked /\ ResumeParked
  /\ TranscriptParked
  /\ ModelParked
  /\ CatalogParked
  /\ CaptionParked
  /\ LineParked

RetrySpec == RetryStart /\ [][RetryNext]_vars

\* Every remote call (the operation, authenticate) settles and every timer fires.
FairRetrySpec == RetrySpec /\ WF_vars(RetryNext)

InCall == rPc \in {"try", "ensure", "op", "catch", "reauth", "waiting"}

\* the errors that are neither rate-limited nor auth-expired
FatalErrors ==
  {e \in Errors : e.status \notin {401, 429} /\ e.message # "rate limit exceeded"}

RateLimitErrors ==
  {e \in Errors : e.status = 429 \/ e.message = "rate limit exceeded"}

\* C5: the operation is invoked at most maxRetries times, and when every
\* attempt is rate-limited the rate-limit error is thrown after exactly
\* maxRetries invocations.
C5_AtMostMaxRetries ==
  /\ (InCall \/ rPc \in {"returned", "thrown"}) => invocations <= maxRetries
  /\ (rPc = "thrown" /\ onlyRateLimited) =>
        (invocations = maxRetries /\ thrown \in RateLimitErrors)

C5_Witness ==
  /\ rPc = "thrown"
  /\ onlyRateLimited
  /\ maxRetries >= 3
  /\ invocations = maxRetries

\* C6: retryWithBackoff terminates for every sequence of outcomes: once
\* called it returns or throws.
C6_Terminates == InCall ~> (rPc \in {"returned", "thrown"})

C6_Witness ==
  /\ rPc = "thrown"
  /\ maxRetries >= 2
  /\ authErrors = maxRetries
  /\ thrown.status = 401

\* C7: a 401 of a caption operation, once re-authenticated, is retried and
\* leaves the number of attempts still available as it was.
C7_AuthKeepsBudget ==
  [][(\E d \in Durations : ReauthSettles(Ok, d)) =>
       (rPc' = "try" /\ maxRetries - attempt' = maxRetries - attempt)]_vars

\* C8: an error that is neither rate-limited nor auth-expired is thrown
\* right after the failing attempt: no wait, no further invocation.
C8_FatalNotRetried ==
  [][(rPc = "catch" /\ lastError \in FatalErrors) =>
       (rPc' = "thrown" /\ thrown' = lastError /\ now' = now
        /\ invocations' = invocations)]_vars

C8_Witness ==
  /\ rPc = "thrown"
  /\ thrown \in FatalErrors
  /\ attempt < maxRetries
  /\ invocations = attempt

\* the cap of the wait in seconds: 60 in part_003, 300 in fast-processor.js
BackoffCap(impl) == IF impl = "part_003" THEN 60 ELSE 300

BackoffFactor(impl) == IF impl = "part_003" THEN 2 ELSE 4

CredentialOperations ==
  {"Delete AR caption", "Upload AR caption", "Caption verification for clip"}

\* C10: no attempt of a caption delete, upload or listing starts with a
\* credential that is absent or within 5 minutes of its recorded expiry.
C10_FreshTokenAtAttempt ==
  (rPc = "op" /\ operationName \in CredentialOperations) =>
     /\ accessToken # Null
     /\ tokenExpiry # Null
     /\ now <= tokenExpiry - 5 * 60 * 1000

C10_Witness ==
  /\ rPc = "op"
  /\ operationName = "Caption verification for clip"
  /\ attempt >= 2
  /\ tokenExpiry = now + TokenLifetime
  /\ now > 0

(* -------------------------- processVideoFast --------------------------- *)
ItemStart == ItemInit /\ PoolParked /\ RetryParked /\ StageParked /\ PublishParked
  /\ PairParked /\ ResumeParked
  /\ TranscriptParked
  /\ ModelParked
  /\ CatalogParked
  /\ CaptionParked
  /\ LineParked

ItemSpec == ItemStart /\ [][ItemNext]_vars

\* C4: processVideoFast returns normally (the pool then reports the Item as
\* succeeded) only when the verification of the attempt that ended it
\* accepted every required language Artifact.
C4_SucceededOnlyIfVerified ==
  pPc = "resolved" =>
     /\ verifiedAttempt = pAttempt
     /\ isComplete
     /\ \A l \in Languages :
          /\ artifacts[l].exists
          /\ ~artifacts[l].placeholder
          /\ artifacts[l].size >= 100
          /\ artifacts[l].substantive

C4_Witness ==
  /\ pPc = "resolved"
  /\ pAttempt = 2
  /\ pError = "Video processing verification failed"

\* C20: an Item gets at most 3 whole-item attempts; the error of the third
\* failed attempt is rethrown, processNext records the Item in errors with
\* that reason, and settles normally (the run goes on).
C20_AtMostThreeAttempts ==
  /\ pAttempt <= 3
  /\ pPc = "rejected" => (pAttempt = 3 /\ pError # "none")
  /\ reported.list = "errors" =>
        (pPc = "settled" /\ pAttempt = 3 /\ reported.error = pError /\ pError # "none")

C20_Witness ==
  /\ reported.list = "errors"
  /\ reported.error = "Video processing verification failed"
  /\ pAttempt = 3
  /\ pWait = 4000

\* C12: an attempt in which a translation threw (the count-mismatch error of
\* a short response) never ends with processVideoFast returning normally,
\* whatever artifact files existed before the attempt.
C12_ShortfallNeverSucceeds ==
  pPc = "resolved" => failedTranslations = {}

\* C16: verifyVideoProcessing returns true only if each of the five
\* Artifacts exists, is non-empty and at least 100 bytes, contains no
\* placeholder marker and has a substantive text line.
C16_GateAcceptsOnlyValid ==
  [][(pPc \in {"verify", "skipVerify"} /\ isComplete') =>
       \A l \in Languages :
          /\ artifacts[l].exists
          /\ artifacts[l].size > 0
          /\ artifacts[l].size >= 100
          /\ ~artifacts[l].placeholder
          /\ artifacts[l].substantive]_vars

C16_Witness ==
  /\ pPc = "cleanup"
  /\ isComplete
  /\ verifiedAttempt = 2
  /\ pError = "Video processing verification failed"
  /\ stageCalls > 5

(* --------------- processVideoFast of src/fast-processor.js ------------- *)
FastItemStart == FastItemInit /\ PoolParked /\ RetryParked /\ StageParked /\ PublishParked
  /\ PairParked /\ ResumeParked
  /\ TranscriptParked
  /\ ModelParked
  /\ CatalogParked
  /\ CaptionParked
  /\ LineParked

FastItemSpec == FastItemStart /\ [][ItemNext]_vars

\* C17: an Item with a '[LANG] source' line of the lenient mode in one of
\* its Artifacts is never declared complete by the processor that wrote it.
C17_PlaceholdersNeverAccepted ==
  pPc = "resolved" => padded = {}

(* ------------------------------- run() --------------------------------- *)
RunStart == RunInit /\ PoolParked /\ RetryParked /\ StageParked /\ PublishParked
  /\ PairParked /\ ResumeParked
  /\ TranscriptParked
  /\ ModelParked
  /\ CatalogParked
  /\ CaptionParked
  /\ LineParked

RunSpec == RunStart /\ [][RunNext]_vars

\* C18: an Item whose five files exist but of which one violates the gate
\* (placeholder marker, below 100 bytes, no substantive text) is not skipped
\* by a run.
C18_InvalidItemReprocessed ==
  (/\ \A l \in Languages : artifactsAtStart[l].exists
   /\ \E l \in Languages : \/ artifactsAtStart[l].placeholder
                           \/ artifactsAtStart[l].size < 100
                           \/ ~artifactsAtStart[l].substantive)
  => pPc # "skipped"

\* the five Artifacts the run found exist and pass verification
ValidAtStart ==
  \A l \in Languages :
     /\ artifactsAtStart[l].exists
     /\ ~artifactsAtStart[l].placeholder
     /\ artifactsAtStart[l].size >= 100
     /\ artifactsAtStart[l].substantive

\* C19 (as claimed): a run over an Item whose five Artifacts exist and pass
\* verification invokes no stage for it and leaves its Artifacts unchanged.
C19_ValidItemUntouched ==
  ValidAtStart => (stageCalls = 0 /\ artifacts = artifactsAtStart)

\* C19 (amended): with skipExisting set (SKIP_EXISTING_VTTS other than
\* 'false', the default) a run over such an Item invokes no stage for it and
\* leaves its Artifacts unchanged.
C19_ValidItemSkippedWhenSkipExisting ==
  (skipExisting /\ ValidAtStart) =>
     (stageCalls = 0 /\ artifacts = artifactsAtStart /\ pPc \in {"catalog", "skipped"})

C19_Witness ==
  /\ pPc = "skipped"
  /\ ValidAtStart
  /\ stageCalls = 0

(* ----------------------- the translation stage ------------------------- *)
StageStart == StageInit /\ PoolParked /\ RetryParked /\ ItemParked /\ PublishParked
  /\ PairParked /\ ResumeParked
  /\ TranscriptParked
  /\ ModelParked
  /\ CatalogParked
  /\ CaptionParked
  /\ LineParked

TranslateSpec == StageStart /\ [][StageNext]_vars

BatchSettles == tPc = "request" /\ tPc' \notin {"request", "backoff"}

\* C11: a batch call either adds exactly len(batch) translations, none of
\* them the source text or its '[LANG] source' padding, or the stage fails;
\* an answer with fewer lines than the batch always fails it.
C11_ExactCountOrThrow ==
  [][BatchSettles =>
       /\ \/ (tPc' = "thrown" /\ translations' = translations)
          \/ /\ Len(translations') = Len(translations) + Len(CurrentBatch)
             /\ \A k \in Len(translations) + 1 .. Len(translations') :
                   /\ translations'[k] # subtitleTexts[k]
                   /\ translations'[k] # Pad(targetLanguage, subtitleTexts[k])
       /\ offered' < Len(CurrentBatch) => (tPc' = "thrown" /\ translations' = translations)
    ]_vars

C11_Witness ==
  /\ tPc = "thrown"
  /\ tError = "Translation incomplete"
  /\ Len(CurrentBatch) = 3
  /\ offered = 2

\* the placeholder patterns: a language tag before a source text,
\* 'PLACEHOLDER', 'placeholder', 'Translation failed', 'translation failed'
PlaceholderMarked(line) ==
  \/ \E l \in Languages, t \in Range(SourceTexts) : line = Pad(l, t)
  \/ line \in {"PLACEHOLDER", "placeholder", "Translation failed", "translation failed"}

Delivered == tPc \in {"returned", "written"}

\* C13: translateVTTFast returns only when no translated unit equals its
\* source, is empty or matches a placeholder pattern; otherwise it throws,
\* and the file of the language is written only after it returned.
C13_DefectiveUnitRejectsStage ==
  /\ Delivered =>
        /\ Len(translations) = Len(subtitleTexts)
        /\ \A k \in 1 .. Len(translations) :
              /\ translations[k] # subtitleTexts[k]
              /\ translations[k] # ""
              /\ ~PlaceholderMarked(translations[k])
  /\ tPc # "written" => written = << >>
  /\ tPc = "written" => written = translatedVTT

C13_Witness ==
  /\ tPc = "caught"
  /\ tError = "Invalid translation detected"
  /\ Len(translations) >= 1
  /\ written = << >>

TextPositions == {i \in 1 .. Len(vttLines) : ~IsNonText(Trim(vttLines[i]))}

KthTextPosition(k) ==
  CHOOSE i \in TextPositions : Cardinality({j \in TextPositions : j <= i}) = k

\* C14 (as claimed): the output has as many lines as the input, every
\* non-text line is at its index unchanged, and the k-th text line holds the
\* k-th translation.
C14_NonTextUnchanged ==
  Delivered =>
     /\ Len(translatedVTT) = Len(vttLines)
     /\ \A i \in 1 .. Len(vttLines) :
           i \notin TextPositions => translatedVTT[i] = vttLines[i]
     /\ \A k \in 1 .. Len(translations) : translatedVTT[KthTextPosition(k)] = translations[k]

\* C14 (amended): the output has as many lines as the input, every non-text
\* line is at its index with its leading and trailing whitespace removed,
\* and the k-th text line holds the k-th translation.
C14_PositionsPreserved ==
  Delivered =>
     /\ Len(translatedVTT) = Len(vttLines)
     /\ \A i \in 1 .. Len(vttLines) :
           i \notin TextPositions => translatedVTT[i] = Trim(vttLines[i])
     /\ \A k \in 1 .. Len(translations) : translatedVTT[KthTextPosition(k)] = translations[k]

C14_Witness ==
  /\ tPc = "returned"
  /\ Len(translations) = 3
  /\ translations[1] # translations[2]
  /\ batchSize = 2
  /\ \E i \in 1 .. Len(vttLines) : i \notin TextPositions /\ vttLines[i] # Trim(vttLines[i])

RECURSIVE Flatten(_)
Flatten(seqs) == IF seqs = << >> THEN << >> ELSE Head(seqs) \o Flatten(Tail(seqs))

Ceil(t, b) == (t + b - 1) \div b

\* the batches requested so far are consecutive, of 1 to B units, and their
\* concatenation is the beginning of the text units
ConsecutiveBatches ==
  /\ \A b \in 1 .. Len(batches) : Len(batches[b]) \in 1 .. batchSize
  /\ Len(Flatten(batches)) <= Len(subtitleTexts)
  /\ Flatten(batches) = SubSeq(subtitleTexts, 1, Len(Flatten(batches)))
  /\ Delivered => (Flatten(batches) = subtitleTexts
                   /\ Len(batches) = Ceil(Len(subtitleTexts), batchSize))

\* C15 (as claimed): the batches partition the text units and exactly one
\* service request is issued per batch.
C15_OneRequestPerBatch ==
  /\ ConsecutiveBatches
  /\ requests <= 1
  /\ tPc = "request" => requests = 1

\* C15 (amended): the batches partition the text units and one call of
\* batchTranslateSubtitles is made per batch; the call issues one service
\* request, and one more after each rate-limited request, at most 5.
C15_OneCallPerBatch ==
  /\ ConsecutiveBatches
  /\ requests <= 5
  /\ tPc = "request" => requests >= 1
  /\ ~retried => requests <= 1

C15_Witness ==
  /\ tPc = "returned"
  /\ Len(subtitleTexts) = 3
  /\ Len(batches) = 2
  /\ retried
  /\ requests = 1


FairItemSpec == ItemStart /\ [][ItemNext]_vars /\ WF_vars(ItemNext)

\* C22: every call of processVideoFast ends: whatever the speech-to-text
\* process does, the Item is eventually reported to results or to errors.
C22_ItemReachesTerminal ==
  <>(pPc = "settled")

\* C23: when processVideoFast returns normally, none of the Item's files in
\* the temp directory (video, audio, transcript output) remains.
C23_NoTempFilesWhenComplete ==
  pPc = "resolved" => tempFiles = {}

\* C24: in every attempt the stages run one after the other: extraction
\* starts only when the download has returned, transcription when the
\* extraction has, the translations when the transcription has, and
\* verification when every translation has settled.
C24_StagesInSequence ==
  [][/\ (pPc' = "download" /\ pPc # "download") => pPc = "clean"
     /\ (pPc' = "extract" /\ pPc # "extract") => pPc = "download"
     /\ (pPc' = "transcribe" /\ pPc # "transcribe") => pPc = "extract"
     /\ (pPc' = "translate" /\ pPc # "translate") => pPc = "transcribe"
     /\ (pPc' = "verify" /\ pPc # "verify") => pPc = "translate"
     /\ pPc \in {"clean", "download", "extract", "transcribe", "translate"} =>
           pAttempt' = pAttempt]_vars

C24_Witness ==
  /\ pPc = "verify"
  /\ pAttempt = 2
  /\ tempFiles = {"video", "audio", "transcript"}
  /\ originalLangCode = "ar"

(* ------------- translations, uploads and the gate of an attempt -------- *)
PublishStart == PublishInit /\ PoolParked /\ RetryParked /\ ItemParked /\ StageParked
  /\ PairParked /\ ResumeParked
  /\ TranscriptParked
  /\ ModelParked
  /\ CatalogParked
  /\ CaptionParked
  /\ LineParked

PublishSpec == PublishStart /\ [][PublishNext]_vars

InTranslation == {l \in Languages : lane[l] \notin {"idle", "settled"}}

AllLocalValid == \A l \in Languages : ArtifactIssue(outputFiles[l]) = "none"

\* C25: a caption is uploaded only once the verification of the attempt has
\* accepted the Item's Artifacts.
C25_UploadOnlyAfterGate ==
  uploaded # {} => uPc = "accepted"

\* C26: when the five local Artifacts are valid, verifyVideoProcessing
\* returns true whatever the listing of the remote captions shows (captions
\* missing, rate limit, API error).
C26_RemoteCheckAdvisory ==
  uPc = "refused" => ~AllLocalValid

\* C27: a POST answered 'Caption already exists' is followed by the DELETE of
\* that language's caption and, after it, by a second POST; when the second
\* POST succeeds uploadCaptionToApiVideo returns true; the language's result
\* is a success whatever the upload did, and the gate of src/unnamed/part_003
\* refuses the attempt only for its local files.
C27_ConflictIsRecovered ==
  [][/\ \A l \in Languages :
          /\ (l \in conflicted' /\ l \notin conflicted) => lane'[l] = "deleting"
          /\ (lane'[l] = "reposting" /\ lane[l] # "reposting") =>
                (lane[l] = "waiting" /\ l \in conflicted)
          /\ (lane'[l] = "waiting" /\ lane[l] # "waiting") => lane[l] = "deleting"
          /\ (lane[l] = "reposting" /\ l \in uploaded') => uploadReturn'[l] = "true"
          /\ (l \in conflicted /\ lane'[l] \in {"settled", "pausing"}) =>
                translationResults'[l] = "success"
     /\ (uImpl = "part_003" /\ uPc' = "refused") => ~AllLocalValid]_vars

C27_Witness ==
  /\ uImpl = "part_003"
  /\ "fr" \in conflicted
  /\ "fr" \in uploaded
  /\ uploadReturn["fr"] = "true"
  /\ translationResults["fr"] = "success"
  /\ uPc = "accepted"

\* C29: the translations of one Item that are in flight never exceed
\* this.maxConcurrentTranslations.
C29_TranslationsWithinCeiling ==
  Cardinality(InTranslation) <= maxConcurrentTranslations

(* ------------------ file paths of two Items in flight ------------------ *)
PairStart ==
  PairInit /\ PoolParked /\ RetryParked /\ ItemParked /\ StageParked /\ PublishParked
  /\ ResumeParked
  /\ TranscriptParked
  /\ ModelParked
  /\ CatalogParked
  /\ CaptionParked
  /\ LineParked

PairSpec == PairStart /\ [][PairNext]_vars

\* C28: two Items in flight at the same time never read or write the same
\* file, whatever the titles of the two videos are.
C28_NoSharedPath ==
  \A i, j \in PairItems :
     i # j => StagePaths(qPc[i], pairTitles[i]) \cap StagePaths(qPc[j], pairTitles[j]) = {}

(* ------------------- the download stage across runs -------------------- *)
ResumeStart ==
  ResumeInit /\ PoolParked /\ RetryParked /\ ItemParked /\ StageParked /\ PublishParked
  /\ PairParked
  /\ TranscriptParked
  /\ ModelParked
  /\ CatalogParked
  /\ CaptionParked
  /\ LineParked

ResumeSpec == ResumeStart /\ [][ResumeNext]_vars

\* C30: the download stage requests no video whose complete file is in the
\* temp directory, and never takes an incomplete file for a download.
C30_DownloadIdempotentOnResume ==
  /\ redownloaded = {}
  /\ \A v \in DownloadVideos : takenAsCopy[v] # "partial"

(* ------------------- the worker pool: order of starts ------------------ *)
\* C37: every queue item is handed to exactly one lane exactly once, none is
\* skipped, and the items start in queue order: what has started is always
\* videos[0 .. started-1], whatever order the lanes finish in.
C37_StartedOnceInQueueOrder ==
  /\ [](\A v \in VideoIndices : (videoState[v] # "queued") <=> (v < started))
  /\ [](\A v \in InFlight : Cardinality({l \in Lanes : semaphore[l] = v}) = 1)
  /\ [][\A v \in VideoIndices :
          /\ videoState[v] = "done" => videoState'[v] = "done"
          /\ videoState[v] = "running" => videoState'[v] \in {"running", "done"}
          /\ (videoState[v] = "queued" /\ videoState'[v] # "queued")
               => (videoState'[v] = "running" /\ started <= v /\ v < started')]_vars
  /\ <>(\A v \in VideoIndices : v < videoCount => videoState[v] = "done")

\* a lane that started later has finished first, and its slot was refilled
C37_Witness ==
  /\ videoState[0] = "running"
  /\ videoState[1] = "done"
  /\ started = 3
  /\ semaphore[1] = 2

(* ----------------------- the transcription stage ----------------------- *)
TranscriptStart ==
  TranscriptInit /\ PoolParked /\ RetryParked /\ ItemParked /\ StageParked /\ PublishParked
  /\ PairParked /\ ResumeParked
  /\ ModelParked
  /\ CatalogParked
  /\ CaptionParked
  /\ LineParked

TranscriptSpec == TranscriptStart /\ [][TranscriptNext]_vars

\* C31: every transcript the transcription stage hands on to translation
\* comes from a file that exists and contains the 'WEBVTT' marker, a file
\* that was already on disk when the stage started included.
C31_HandedOnOnlyWithMarker ==
  \A i \in BatchItems : wPc[i] = "handed" => handedOn[i] = "webvtt"

(* --------------- start-up: the model the translator names -------------- *)
ModelStart ==
  ModelInit /\ PoolParked /\ RetryParked /\ ItemParked /\ StageParked /\ PublishParked
  /\ PairParked /\ ResumeParked /\ TranscriptParked
  /\ CatalogParked
  /\ CaptionParked
  /\ LineParked

ModelSpec == ModelStart /\ [][ModelNext]_vars

\* C32: when FORCE_PAID_MODEL is set, every translation request issued after
\* start-up names the forced model; the priority list decides the model only
\* when none is forced.
C32_RequestsNameForcedModel ==
  (forcedModel # NoModel /\ requestCount > 0) => requestModel = forcedModel

(* ------------ processVideoFast and the captions of the video ----------- *)
CatalogStart ==
  CatalogInit /\ PoolParked /\ RetryParked /\ ItemParked /\ StageParked /\ PublishParked
  /\ PairParked /\ ResumeParked /\ TranscriptParked /\ ModelParked
  /\ CaptionParked
  /\ LineParked

CatalogSpec == CatalogStart /\ [][CatalogNext]_vars

\* C33: with caption upload enabled, a video that was processed and finished
\* successfully has had a caption uploaded for each of the five languages,
\* the detected original language included.
C33_AllFiveUploaded ==
  (cUpload /\ stagesRun /\ cPc = "succeeded") => Languages \subseteq uploadedLangs

\* C36: with caption upload disabled, processing an Item sends no mutating
\* call to the catalog: nothing is deleted, nothing uploaded, and the
\* captions published before the run are still there.
C36_NoCatalogMutationWhenDisabled ==
  ~cUpload => /\ ~deleteSent
              /\ uploadedLangs = {}
              /\ published = publishedAtStart

\* C38: in src/fast-processor.js with caption upload enabled, an Item whose
\* stages, translations and catalog calls all succeed does not end failed
\* after its retries.
C38_AllSucceededIsComplete ==
  (cImpl = "fast-processor" /\ cUpload /\ allSucceeded) => cPc # "failed"

(* ------------- processVideo of src/index.js and its captions ----------- *)
CaptionStart ==
  CaptionInit /\ PoolParked /\ RetryParked /\ ItemParked /\ StageParked /\ PublishParked
  /\ PairParked /\ ResumeParked /\ TranscriptParked /\ ModelParked /\ CatalogParked
  /\ LineParked

CaptionSpec == CaptionStart /\ [][CaptionNext]_vars

\* C34: in processVideo, when captions already exist for the video and
\* REPLACE_EXISTING_CAPTIONS is not 'true', no upload request is sent for the
\* video, while its local VTT files are still written.
C34_UploadSkippedWhenNotReplacing ==
  (existingCaptions # {} /\ ~kReplace)
     => /\ uploadRequests = {}
        /\ kPc = "done" => kLocal = Languages

\* C35: when existing captions are replaced, no caption is uploaded before a
\* listing has confirmed that none remains; waitForCaptionDeletion returns
\* true only after a successful listing that showed no caption, and it
\* requests no listing once its 30 s have passed.
C35_UploadAfterConfirmedDeletion ==
  /\ (existingCaptions # {} /\ kReplace /\ uploadRequests # {}) => confirmedEmpty
  /\ waitResult = "true" => confirmedEmpty
  /\ waitResult = "false" => kElapsed >= MaxWaitTime
  /\ ~listingsAfterTimeout

(* ------------ translateVTTIndividually and retryTranslation ------------ *)
LineStart ==
  LineInit /\ PoolParked /\ RetryParked /\ ItemParked /\ StageParked /\ PublishParked
  /\ PairParked /\ ResumeParked /\ TranscriptParked /\ ModelParked /\ CatalogParked
  /\ CaptionParked

LineSpec == LineStart /\ [][LineNext]_vars

\* C39: when the failing service call of a line fails the language,
\* retryTranslation has invoked the translation of that line 3 times, with
\* waits of 2 s and then 4 s between the invocations.
C39_ServiceFailureIsRetried ==
  \A i \in 1 .. Len(langResults) :
     (langResults[i].tried /\ ~langResults[i].success /\ langResults[i].serviceFailed)
        => /\ langResults[i].calls = TranslationRetries
           /\ langResults[i].waits = <<2000, 4000>>

=============================================================================
